---- MODULE Spec2Model ----
(***************************************************************************)
(* Model of vanish (vx): the index-backed move/restore engine driven by    *)
(* the bubbletea workflow of internal/tui/tui.go and the helpers of        *)
(* internal/helpers/helpers.go.                                            *)
(*                                                                         *)
(* The disk (original paths, cache directory, index.json) is shared; each  *)
(* invocation of the tool is a process with its own Model, one command in  *)
(* flight at most, and one message waiting for Update at most.             *)
(***************************************************************************)
EXTENDS Naturals, Integers, Sequences, FiniteSets, TLC

(* ------------------------------ bounds --------------------------------- *)

\* Largest number of delete targets on one command line.
MaxTargets == 3
\* Largest number of restore patterns on one command line.
MaxPatterns == 2
\* Number of injected I/O failures (permission, disk full, ...) in one run.
MaxFaults == 1
\* Number of times the clock is seen to advance during one run.
MaxTicks == 2
\* The clock reading (in hours) when the run starts.
StartClock == 1000

(* --------------------------- configuration ----------------------------- *)

\* time.Duration(days) * 24 * time.Hour: the clock of the model counts hours.
HoursPerDay == 24

\* The configuration the engine is handed; sizes are scaled (1 = 1 MB).
Config ==
  [ Days            |-> 10,
    LoggingEnabled  |-> TRUE,
    ConfirmOnLarge  |-> TRUE,
    LargeSizeLimit  |-> 100,
    LargeCountLimit |-> 1000,
    ProtectedPaths  |-> { <<"c">> },
    RequireConfirm  |-> { <<"*", "k">> },
    NoConfirm       |-> FALSE ]

(* ------------------------------ strings -------------------------------- *)

\* Paths and patterns are sequences of one-character strings.
PathAX == <<"a", "x">>
PathBX == <<"b", "x">>
PathCY == <<"c", "y">>

Paths == { PathAX, PathBX, PathCY }

\* Restore patterns a user may type: part of a name, in another case, of
\* no name, a glob.
Patterns == { <<"x">>, <<"A">>, <<"z">>, <<"*">> }

\* strings.ToLower on the characters the model uses.
ToLowerChar(ch) ==
  CASE ch = "A" -> "a"
    [] ch = "B" -> "b"
    [] ch = "C" -> "c"
    [] ch = "X" -> "x"
    [] ch = "Y" -> "y"
    [] OTHER    -> ch

ToLower(s) == [i \in 1..Len(s) |-> ToLowerChar(s[i])]

\* strings.Contains(s, sub)
Contains(s, sub) ==
  \E i \in 0..(Len(s) - Len(sub)) : SubSeq(s, i + 1, i + Len(sub)) = sub

\* strings.HasPrefix(s, prefix)
HasPrefix(s, prefix) ==
  /\ Len(prefix) <= Len(s)
  /\ SubSeq(s, 1, Len(prefix)) = prefix

\* filepath.Match for patterns made of literal characters and "*".
RECURSIVE Match(_, _)
Match(pat, s) ==
  IF pat = <<>> THEN s = <<>>
  ELSE IF Head(pat) = "*"
       THEN Match(Tail(pat), s) \/ (s # <<>> /\ Match(pat, Tail(s)))
       ELSE s # <<>> /\ Head(s) = Head(pat) /\ Match(Tail(pat), Tail(s))

\* filepath.Base of a clean path: what follows the last separator; the
\* targets of the workflow have a single component.
Base(path) ==
  LET slashes == { i \in 1..Len(path) : path[i] = "/" }
  IN  IF slashes = {} \/ path = <<"/">> THEN path
      ELSE SubSeq(path, (CHOOSE i \in slashes : \A j \in slashes : j <= i) + 1, Len(path))

(* ------------------------------ objects -------------------------------- *)

NoObj == [kind |-> "none"]

\* os.Create makes the file with 0666 less the umask (022): 0644.
DefaultFileMode == 420

\* The object a path holds when it exists at the start of a run:
\* an executable file (0755), a large file (0644), a directory (0755).
InitialObj(path) ==
  CASE path = PathAX -> [kind |-> "file", data |-> "ax", mode |-> 493, size |-> 10,  count |-> 0]
    [] path = PathBX -> [kind |-> "file", data |-> "bx", mode |-> 420, size |-> 200, count |-> 0]
    [] OTHER         -> [kind |-> "dir",  data |-> "cy", mode |-> 493, size |-> 30,  count |-> 2]

\* What a copy that failed midway leaves at the destination.
Partial(obj) == [obj EXCEPT !.data = "partial"]

IsDir(obj) == obj.kind = "dir"

\* A symbolic link to the path `target`.
LinkTo(target) == [kind |-> "link", target |-> target]

(* ------------------------------ processes ------------------------------ *)

Procs == {1, 2}

VARIABLES
  fs,          \* original path -> object (NoObj when nothing is there)
  cache,       \* cache path -> object, for the cache paths that exist
  indexFile,   \* index.json: [state: absent | ok | corrupt, items: sequence]
  now,         \* the last clock reading
  m,           \* process -> Model
  cmd,         \* process -> the command in flight
  inbox,       \* process -> the message waiting for Update
  running,     \* process -> the bubbletea program has not quit
  faults,      \* I/O failures injected so far
  answeredYes, \* process -> the user pressed 'y' at the confirmation prompt
  disk0,       \* <<fs, cache, indexFile>> when the run started
  out          \* process -> what a query printed

vars == <<fs, cache, indexFile, now, m, cmd, inbox, running, faults, answeredYes, disk0, out>>

\* What os.Stat, os.Open and os.ReadDir reach through obj: they follow a
\* symbolic link (NoObj when it dangles).
Referent(obj) == IF obj.kind = "link" THEN fs[obj.target] ELSE obj

\* The object at path as os.Stat and the walks of CountFilesInDirectory
\* and GetDirectorySize describe it: filepath.Walk does not follow a link
\* it is started on, and sees the link alone.
Walked(path) ==
  LET entry == fs[path]
  IN  IF entry.kind = "link" /\ IsDir(Referent(entry))
        THEN [Referent(entry) EXCEPT !.count = 0, !.size = Len(entry.target)]
        ELSE Referent(entry)

NoCmd == [name |-> "none"]
NoOut == [kind |-> "none"]
NoMsg == [type |-> "none"]

\* types.DeletedItem{}: the zero item, whose ID is "".
NoItem == [ID |-> 0]

\* types.FileInfo{}: what make([]types.FileInfo, n) holds.
ZeroFileInfo == [Path |-> <<>>, Exists |-> FALSE, IsDirectory |-> FALSE, FileCount |-> 0]

(* ------------------------------- clock --------------------------------- *)

\* time.Now(): the clock never goes back; two readings may be equal.
ClockReadings == { t \in {now, now + 1} : t <= StartClock + MaxTicks }

\* time.Duration counts nanoseconds in an int64: 2^64 ns, in hours to the
\* nearest hour (5124095 h 35 min).
DurationRange == 5124096

\* time.Duration(days) * 24 * time.Hour, in hours: the product wraps
\* around the int64.
DurationOfDays(days) ==
  LET h == (days * HoursPerDay) % DurationRange
  IN  IF h >= DurationRange \div 2 THEN h - DurationRange ELSE h

\* now.Add(-time.Duration(days) * 24 * time.Hour)
Cutoff(t, days) == t - DurationOfDays(days)

\* A comparison that would count the entry exactly at the cutoff as expired.
ExpiredInclusive(item, cutoff) == item.DeleteDate <= cutoff

\* item.DeleteDate.Before(cutoff)
Expired(item, cutoff) == item.DeleteDate < cutoff

(* ---------------------------- the index file --------------------------- *)

AbsentIndex == [state |-> "absent", items |-> <<>>]
OkIndex(items) == [state |-> "ok", items |-> items]
\* A write that stopped midway: the file no longer decodes.
CorruptIndex == [state |-> "corrupt", items |-> <<>>]

\* types.Index has the one field Items: an index of helpers carries no
\* version stamp.
NoVersion == ""

\* LoadIndex: [err, items, version]. A missing file is an empty index; a
\* file that cannot be read (readFails) or decoded is an error.
LoadIndex(file, readFails) ==
  IF file.state = "absent" THEN [err |-> FALSE, items |-> <<>>, version |-> NoVersion]
  ELSE IF readFails \/ file.state = "corrupt" THEN [err |-> TRUE, items |-> <<>>, version |-> NoVersion]
  ELSE [err |-> FALSE, items |-> file.items, version |-> NoVersion]

\* The version filesystem.LoadIndex stamps on an index that has none.
CurrentVersion == "1.0"

\* LoadIndex of package filesystem, over models.Index, on the same file: the
\* file helpers.SaveIndex writes has no "version", so a decoded index
\* gets the current one.
FilesystemLoadIndex(file, readFails) ==
  IF file.state = "absent" THEN [err |-> FALSE, items |-> <<>>, version |-> CurrentVersion]
  ELSE IF readFails \/ file.state = "corrupt" THEN [err |-> TRUE, items |-> <<>>, version |-> NoVersion]
  ELSE [err |-> FALSE, items |-> file.items, version |-> CurrentVersion]

\* The outcomes of os.WriteFile(indexPath, data, 0644).
SaveOutcomes == {"ok", "openFails", "writeFails"}

\* A SaveIndex that would re-read the file under a lock and keep the
\* entries it finds there next to the ones it was given.
SaveIndexMerging(file, items, outcome) ==
  CASE outcome = "ok" ->
         OkIndex(file.items
                   \o SelectSeq(items,
                                LAMBDA it : \A i \in 1..Len(file.items) : file.items[i] # it))
    [] outcome = "openFails" -> file
    [] OTHER                 -> CorruptIndex

\* SaveIndex: the index file after os.WriteFile ended with `outcome`.
\* WriteFile opens with O_TRUNC and writes in place: a write that fails
\* after the open leaves a truncated file.
SaveIndex(file, items, outcome) ==
  CASE outcome = "ok"        -> OkIndex(items)
    [] outcome = "openFails" -> file
    [] OTHER                 -> CorruptIndex

\* A filter that would stop at the first entry with the id.
RemoveFirstID(items, id) ==
  LET hits == { i \in 1..Len(items) : items[i].ID = id }
  IN  IF hits = {} THEN items
      ELSE LET first == CHOOSE i \in hits : \A j \in hits : i <= j
           IN  SubSeq(items, 1, first - 1) \o SubSeq(items, first + 1, Len(items))

\* The loop of RemoveFromIndex: the items whose ID differs, in order.
RemoveID(items, id) == SelectSeq(items, LAMBDA it : it.ID # id)

(* --------------------------- initial disk ------------------------------ *)

\* The cache filename: <id>-<timestamp>-<basename>; id and timestamp are
\* both the clock reading.
CachePathOf(id, filename) == <<id, Base(filename)>>

\* MoveFile copies the bytes into a file made by os.Create and never
\* chmods it: the copy has the default mode.
MoveFileCopy(obj) == [obj EXCEPT !.mode = DefaultFileMode]

\* The DeletedItem moveFileToCache builds.
MakeItem(path, obj, t) ==
  [ ID           |-> t,
    OriginalPath |-> path,
    DeleteDate   |-> t,
    CachePath    |-> CachePathOf(t, path),
    IsDirectory  |-> IsDir(obj),
    FileCount    |-> IF IsDir(obj) THEN obj.count ELSE 0,
    Size         |-> obj.size ]

\* Entries an earlier run left in the index: one already past the
\* retention window, one deleted an hour ago.
OldDate1 == StartClock - Config.Days * HoursPerDay - 1
OldDate2 == StartClock - 1
OldItem1 == MakeItem(PathAX, InitialObj(PathAX), OldDate1)
OldItem2 == MakeItem(PathBX, InitialObj(PathBX), OldDate2)

\* An entry that is one hour inside the retention window when the run
\* starts, reaches the cutoff after one tick and passes it after two.
OldDate3 == StartClock - Config.Days * HoursPerDay + 1
OldItem3 == MakeItem(PathCY, InitialObj(PathCY), OldDate3)

InitialIndexFiles ==
  { AbsentIndex, OkIndex(<<OldItem1>>), OkIndex(<<OldItem2>>), OkIndex(<<OldItem1, OldItem2>>),
    OkIndex(<<OldItem3>>) }

\* The cache of a run that starts with `file` as its index: every entry has
\* its object, as the earlier delete left it.
InitialCache(file) ==
  [ cp \in { file.items[i].CachePath : i \in 1..Len(file.items) } |->
      IF IsDir(InitialObj(cp[2])) THEN InitialObj(cp[2]) ELSE MoveFileCopy(InitialObj(cp[2])) ]

InitialFs(present) == [ p \in Paths |-> IF p \in present THEN InitialObj(p) ELSE NoObj ]

(* ------------------------------ the Model ------------------------------ *)

\* All sequences over S of length lo..hi.
SeqsOf(S, lo, hi) == UNION { [1..n -> S] : n \in lo..hi }

\* InitialModel (tui.go): the Model before Init runs.
InitialModel(filenames, operation, noConfirm) ==
  [ Filenames      |-> filenames,
    FileInfos      |-> [i \in 1..Len(filenames) |-> ZeroFileInfo],
    CurrentIndex   |-> 0,
    State          |-> "checking",
    Confirmed      |-> FALSE,
    ErrorMsg       |-> "",
    ProcessedItems |-> <<>>,
    ProcessedFiles |-> 0,
    NoConfirm      |-> (noConfirm \/ Config.NoConfirm),
    Operation      |-> operation,
    RestoreItems   |-> <<>> ]

\* A process that was not started.
OffModel == [InitialModel(<<>>, "none", FALSE) EXCEPT !.State = "off"]

\* An Init whose assignments to State are lost, as on a copy of the Model.
InitStateOnCopy(operation) == IF operation = "stats" THEN "off" ELSE "checking"

\* Model.Init: the state it sets and the command it returns.
InitState(operation) ==
  CASE operation = "clear" -> "clearing"
    [] operation = "stats" -> "off"
    [] operation = "purge" -> "purging"
    [] OTHER               -> "checking"

InitCmd(mm) ==
  CASE mm.Operation = "clear"   -> [name |-> "ClearAllCache"]
    [] mm.Operation = "stats"   -> [name |-> "ShowStats"]
    [] mm.Operation = "purge"   -> [name |-> "PurgeOldFiles", pc |-> "load", days |-> mm.Filenames[1]]
    [] mm.Operation = "restore" -> [name |-> "CheckRestoreItems", patterns |-> mm.Filenames]
    [] OTHER                    -> [name |-> "CheckFilesExist", filenames |-> mm.Filenames]

\* The argument of --purge as typed.
PurgeArgs ==
  { <<"0">>, <<"1", "0">>, <<"-", "1">>, <<"x">>,
    <<"9", "9", "9", "9">>, <<"2", "0", "0", "0", "0", "0">> }

\* The command lines of one invocation: <<operation, filenames>>.
CommandLines ==
  ({"delete"}  \X SeqsOf(Paths, 1, MaxTargets))
    \cup ({"restore"} \X SeqsOf(Patterns, 1, MaxPatterns))
    \cup ({"purge"}   \X { <<d>> : d \in PurgeArgs })
    \cup {<<"clear", <<>> >>, <<"stats", <<>> >>}

Started(operation, filenames, noConfirm) ==
  [InitialModel(filenames, operation, noConfirm) EXCEPT !.State = InitState(operation)]

Init ==
  \E cl \in CommandLines, noConfirm \in BOOLEAN,
     present \in SUBSET Paths, file \in InitialIndexFiles :
    /\ fs = InitialFs(present)
    /\ cache = InitialCache(file)
    /\ indexFile = file
    /\ now = StartClock
    /\ m = [p \in Procs |-> IF p = 1 THEN Started(cl[1], cl[2], noConfirm) ELSE OffModel]
    /\ cmd = [p \in Procs |-> IF p = 1 THEN InitCmd(Started(cl[1], cl[2], noConfirm)) ELSE NoCmd]
    /\ inbox = [p \in Procs |-> NoMsg]
    /\ running = [p \in Procs |-> p = 1]
    /\ faults = 0
    /\ answeredYes = [p \in Procs |-> FALSE]
    /\ disk0 = <<InitialFs(present), InitialCache(file), file>>
    /\ out = [p \in Procs |-> NoOut]

(* ------------------------- plumbing of one program --------------------- *)

\* A failure can still be injected.
CanFail == faults < MaxFaults

\* The command of process p returns msg to the event loop.
Send(p, msg) ==
  /\ inbox' = [inbox EXCEPT ![p] = msg]
  /\ cmd' = [cmd EXCEPT ![p] = NoCmd]

\* The command of process p goes on to its next step.
Continue(p, c) ==
  /\ cmd' = [cmd EXCEPT ![p] = c]
  /\ UNCHANGED inbox

\* Process p runs the step `pc` of command `name`.
AtStep(p, name, pc) ==
  /\ running[p]
  /\ cmd[p].name = name
  /\ cmd[p].pc = pc

\* A message of type `type` is handed to Update of process p.
Receives(p, type) ==
  /\ running[p]
  /\ inbox[p].type = type

\* tea.Quit: the program ends; the process exits with whatever command
\* was in flight.
Quit(p) ==
  /\ running' = [running EXCEPT ![p] = FALSE]
  /\ cmd' = [cmd EXCEPT ![p] = NoCmd]
  /\ inbox' = [inbox EXCEPT ![p] = NoMsg]

(* --------------------------- classification ---------------------------- *)

\* IsProtectedPath (tui.go): a string prefix of some protected path.
IsProtectedPath(path, protectedPaths) ==
  \E protected \in protectedPaths : HasPrefix(path, protected)

\* MatchesConfirmPatterns: the base name matches some glob.
MatchesConfirmPatterns(filename, patterns) ==
  \E pattern \in patterns : Match(pattern, Base(filename))

\* isLarge without the count of a directory.
IsLargeBySize(size, isDir, fileCount) == size > Config.LargeSizeLimit

\* CheckFileInfo: isLarge
IsLarge(size, isDir, fileCount) ==
  \/ size > Config.LargeSizeLimit
  \/ (isDir /\ fileCount > Config.LargeCountLimit)

\* CheckFileInfo: needsConfirm
NeedsConfirm(path, size, isDir, fileCount) ==
  \/ IsProtectedPath(path, Config.ProtectedPaths)
  \/ (Config.ConfirmOnLarge /\ IsLarge(size, isDir, fileCount))
  \/ MatchesConfirmPatterns(path, Config.RequireConfirm)

\* filesystem.CheckFileInfo(filename, cfg) for the object obj at filename:
\* the models.FileInfo it returns. cfg has the fields of Config.
CheckFileInfo(filename, obj, cfg) ==
  IF obj = NoObj
    THEN [ kind |-> "FileInfo", Path |-> filename, Exists |-> FALSE ]
    ELSE LET isDir == IsDir(obj)
             fileCount == IF isDir THEN obj.count ELSE 0
             isProtected == IsProtectedPath(filename, cfg.ProtectedPaths)
             isLarge == IsLarge(obj.size, isDir, fileCount)
         IN  [ kind         |-> "FileInfo",
               Path         |-> filename,
               IsDirectory  |-> isDir,
               FileCount    |-> fileCount,
               Size         |-> obj.size,
               Exists       |-> TRUE,
               IsProtected  |-> isProtected,
               IsLarge      |-> isLarge,
               NeedsConfirm |-> \/ isProtected
                                \/ (cfg.ConfirmOnLarge /\ isLarge)
                                \/ MatchesConfirmPatterns(filename, cfg.RequireConfirm) ]

(* ------------------------------ checking ------------------------------- *)

\* helpers.CheckFilesExist: one os.Stat per filename.
StatFileInfo(filename) ==
  IF Walked(filename) = NoObj
    THEN [ZeroFileInfo EXCEPT !.Path = filename]
    ELSE [ Path        |-> filename,
           IsDirectory |-> IsDir(Walked(filename)),
           FileCount   |-> IF IsDir(Walked(filename)) THEN Walked(filename).count ELSE 0,
           Exists      |-> TRUE ]

CheckFilesExist(p) ==
  /\ running[p]
  /\ cmd[p].name = "CheckFilesExist"
  /\ Send(p, [ type      |-> "FilesExistMsg",
               FileInfos |-> [i \in 1..Len(cmd[p].filenames) |-> StatFileInfo(cmd[p].filenames[i])] ])
  /\ UNCHANGED <<fs, cache, indexFile, now, m, running, faults, answeredYes, disk0, out>>

\* helpers.CountValidFiles
CountValidFiles(fileInfos) == Cardinality({ i \in 1..Len(fileInfos) : fileInfos[i].Exists })

\* helpers.FindNextValidFile: indices count from 0, -1 when there is none.
FindNextValidFile(fileInfos, startIndex) ==
  LET later == { i \in startIndex..(Len(fileInfos) - 1) : fileInfos[i + 1].Exists }
  IN  IF later = {} THEN -1 ELSE CHOOSE i \in later : \A j \in later : i <= j

\* A matching loop that would queue an item once, however many patterns
\* it matches.
MatchingItemsOnce(patterns, items) ==
  SelectSeq(items, LAMBDA it :
    \E k \in 1..Len(patterns) : Contains(ToLower(it.OriginalPath), ToLower(patterns[k])))

\* The matching loop of helpers.CheckRestoreItems: pattern by pattern, the
\* items whose original path contains the pattern, case folded.
RECURSIVE MatchingItems(_, _)
MatchingItems(patterns, items) ==
  IF patterns = <<>> THEN <<>>
  ELSE SelectSeq(items, LAMBDA it :
           Contains(ToLower(it.OriginalPath), ToLower(Head(patterns))))
         \o MatchingItems(Tail(patterns), items)

CheckRestoreItems(p) ==
  /\ running[p]
  /\ cmd[p].name = "CheckRestoreItems"
  /\ \E readFails \in BOOLEAN :
       /\ readFails => (CanFail /\ indexFile.state = "ok")
       /\ faults' = IF readFails THEN faults + 1 ELSE faults
       /\ LET r == LoadIndex(indexFile, readFails)
          IN  IF r.err
                THEN Send(p, [type |-> "ErrorMsg"])
                ELSE Send(p, [ type  |-> "RestoreItemsMsg",
                               Items |-> MatchingItems(cmd[p].patterns, r.items) ])
  /\ UNCHANGED <<fs, cache, indexFile, now, m, running, answeredYes, disk0, out>>

(* --------------------------- processNextItem --------------------------- *)

\* processNextItem: the command for m.CurrentIndex, or nil.
processNextItem(mm) ==
  IF mm.Operation = "restore"
    THEN IF mm.CurrentIndex >= Len(mm.RestoreItems)
           THEN NoCmd
           ELSE [ name |-> "restoreFromCache", pc |-> "start",
                  item |-> mm.RestoreItems[mm.CurrentIndex + 1] ]
    ELSE IF mm.CurrentIndex < 0 \/ mm.CurrentIndex >= Len(mm.FileInfos)
           THEN NoCmd
           ELSE IF ~mm.FileInfos[mm.CurrentIndex + 1].Exists
                  THEN NoCmd
                  ELSE [ name |-> "moveFileToCache", pc |-> "start",
                         filename |-> mm.FileInfos[mm.CurrentIndex + 1].Path ]

\* Update returns (mm, c): the Model is stored and the command started.
Returns(p, mm, c) ==
  /\ m' = [m EXCEPT ![p] = mm]
  /\ cmd' = [cmd EXCEPT ![p] = c]
  /\ inbox' = [inbox EXCEPT ![p] = NoMsg]

\* The Model after confirmation was given or skipped.
StartBatchUnconfirmed(mm) ==
  [mm EXCEPT !.State = IF mm.Operation = "restore" THEN "restoring" ELSE "moving",
             !.CurrentIndex = 0]

StartBatch(mm) ==
  [mm EXCEPT !.Confirmed = TRUE,
             !.State = IF mm.Operation = "restore" THEN "restoring" ELSE "moving",
             !.CurrentIndex = 0]

\* The Model in the error state.
Failed(mm, errorMsg) == [mm EXCEPT !.State = "error", !.ErrorMsg = errorMsg]

(* --------------------------------- keys -------------------------------- *)

\* A "y" that would start the batch in whatever state it is typed.
KeyYesAnyState(p) ==
  /\ running[p]
  /\ Returns(p, StartBatch(m[p]), processNextItem(StartBatch(m[p])))
  /\ answeredYes' = [answeredYes EXCEPT ![p] = TRUE]
  /\ UNCHANGED <<fs, cache, indexFile, now, running, faults, disk0, out>>

\* Update, tea.KeyMsg "y" / "Y"
KeyYes(p) ==
  /\ running[p]
  /\ IF m[p].State = "confirming"
       THEN /\ Returns(p, StartBatch(m[p]), processNextItem(StartBatch(m[p])))
            /\ answeredYes' = [answeredYes EXCEPT ![p] = TRUE]
       ELSE UNCHANGED <<m, cmd, inbox, answeredYes>>
  /\ UNCHANGED <<fs, cache, indexFile, now, running, faults, disk0, out>>

\* An "n" that would end the session whatever the state.
KeyNoAnyState(p) ==
  /\ running[p]
  /\ Quit(p)
  /\ UNCHANGED <<fs, cache, indexFile, now, m, faults, answeredYes, disk0, out>>

\* Update, tea.KeyMsg "n" / "N"
KeyNo(p) ==
  /\ running[p]
  /\ IF m[p].State = "confirming"
       THEN Quit(p)
       ELSE UNCHANGED <<cmd, inbox, running>>
  /\ UNCHANGED <<fs, cache, indexFile, now, m, faults, answeredYes, disk0, out>>

\* Update, tea.KeyMsg "enter"
KeyEnter(p) ==
  /\ running[p]
  /\ IF m[p].State = "done" \/ m[p].State = "error"
       THEN Quit(p)
       ELSE UNCHANGED <<cmd, inbox, running>>
  /\ UNCHANGED <<fs, cache, indexFile, now, m, faults, answeredYes, disk0, out>>

\* A quit that would put back what the run has moved.
KeyQuitUndoing(p) ==
  /\ running[p]
  /\ Quit(p)
  /\ fs' = disk0[1]
  /\ cache' = disk0[2]
  /\ UNCHANGED <<indexFile, now, m, faults, answeredYes, disk0, out>>

\* Update, tea.KeyMsg "ctrl+c" / "q"
KeyQuit(p) ==
  /\ running[p]
  /\ Quit(p)
  /\ UNCHANGED <<fs, cache, indexFile, now, m, faults, answeredYes, disk0, out>>

(* ------------------------ Update: checking results --------------------- *)

\* An Update for types.FilesExistMsg that would start the first move while
\* it shows the confirmation prompt.
UpdateFilesExistMsgEager(p) ==
  /\ Receives(p, "FilesExistMsg")
  /\ LET mm == [m[p] EXCEPT !.FileInfos = inbox[p].FileInfos]
     IN  IF CountValidFiles(mm.FileInfos) = 0
           THEN Returns(p, Failed(mm, "No valid files or directories found"), NoCmd)
           ELSE Returns(p, [mm EXCEPT !.State = "confirming"], processNextItem(mm))
  /\ UNCHANGED <<fs, cache, indexFile, now, running, faults, answeredYes, disk0, out>>

\* Update, types.FilesExistMsg
UpdateFilesExistMsg(p) ==
  /\ Receives(p, "FilesExistMsg")
  /\ LET mm == [m[p] EXCEPT !.FileInfos = inbox[p].FileInfos]
     IN  IF CountValidFiles(mm.FileInfos) = 0
           THEN Returns(p, Failed(mm, "No valid files or directories found"), NoCmd)
           ELSE IF mm.NoConfirm
                  THEN Returns(p, [StartBatch(mm) EXCEPT !.State = "moving"],
                               processNextItem([StartBatch(mm) EXCEPT !.State = "moving"]))
                  ELSE Returns(p, [mm EXCEPT !.State = "confirming"], NoCmd)
  /\ UNCHANGED <<fs, cache, indexFile, now, running, faults, answeredYes, disk0, out>>

\* An Update for types.RestoreItemsMsg that would ask for confirmation
\* whatever the number of items.
UpdateRestoreItemsMsgUnchecked(p) ==
  /\ Receives(p, "RestoreItemsMsg")
  /\ Returns(p, [m[p] EXCEPT !.RestoreItems = inbox[p].Items, !.State = "confirming"], NoCmd)
  /\ UNCHANGED <<fs, cache, indexFile, now, running, faults, answeredYes, disk0, out>>

\* Update, types.RestoreItemsMsg
UpdateRestoreItemsMsg(p) ==
  /\ Receives(p, "RestoreItemsMsg")
  /\ LET mm == [m[p] EXCEPT !.RestoreItems = inbox[p].Items]
     IN  IF Len(mm.RestoreItems) = 0
           THEN Returns(p, Failed(mm, "No matching items found in cache for restoration"), NoCmd)
           ELSE IF mm.NoConfirm
                  THEN Returns(p, [StartBatch(mm) EXCEPT !.State = "restoring"],
                               processNextItem([StartBatch(mm) EXCEPT !.State = "restoring"]))
                  ELSE Returns(p, [mm EXCEPT !.State = "confirming"], NoCmd)
  /\ UNCHANGED <<fs, cache, indexFile, now, running, faults, answeredYes, disk0, out>>

\* Update, types.ErrorMsg
UpdateErrorMsg(p) ==
  /\ Receives(p, "ErrorMsg")
  /\ Returns(p, Failed(m[p], "ErrorMsg"), NoCmd)
  /\ UNCHANGED <<fs, cache, indexFile, now, running, faults, answeredYes, disk0, out>>

(* ------------------------- relocation primitive ------------------------ *)

\* How the copying half of a move can end: done, nothing done (the source
\* cannot be opened or the destination created), the copy broke off.
CopyOutcomes == {"ok", "openFails", "copyFails"}

\* MoveFile with the source unlinked before the copy is known to be whole.
MoveFileUnlinking(obj, outcome) ==
  CASE outcome = "ok"        -> [err |-> FALSE, src |-> obj,   dst |-> MoveFileCopy(Referent(obj))]
    [] outcome = "openFails" -> [err |-> TRUE,  src |-> obj,   dst |-> NoObj]
    [] OTHER                 -> [err |-> TRUE,  src |-> NoObj, dst |-> Partial(MoveFileCopy(Referent(obj)))]

\* The copying half of helpers.MoveFile (os.Open, os.Create, io.Copy) on
\* the directory entry obj: [err, src, dst], the objects at both ends
\* afterwards (dst = NoObj: nothing was created). os.Open follows a link,
\* and every return before os.Remove leaves the source.
MoveFile(obj, outcome) ==
  CASE outcome = "ok"        -> [err |-> FALSE, src |-> obj, dst |-> MoveFileCopy(Referent(obj))]
    [] outcome = "openFails" -> [err |-> TRUE,  src |-> obj, dst |-> NoObj]
    [] OTHER                 -> [err |-> TRUE,  src |-> obj, dst |-> Partial(MoveFileCopy(Referent(obj)))]

\* helpers.MoveDirectory(src, dst) up to os.RemoveAll: os.Rename, which
\* moves the entry itself, when both ends are on one filesystem, else
\* CopyDirectory, which follows a link and keeps the modes.
MoveDirectory(obj, sameFs, outcome) ==
  CASE sameFs                -> [err |-> FALSE, src |-> NoObj, dst |-> obj]
    [] outcome = "ok"        -> [err |-> FALSE, src |-> obj,   dst |-> Referent(obj)]
    [] outcome = "openFails" -> [err |-> TRUE,  src |-> obj,   dst |-> NoObj]
    [] OTHER                 -> [err |-> TRUE,  src |-> obj,   dst |-> Partial(Referent(obj))]

\* The branch on isDir in moveFileToCache and restoreFromCache.
Move(obj, isDir, sameFs, outcome) ==
  IF isDir THEN MoveDirectory(obj, sameFs, outcome) ELSE MoveFile(obj, outcome)

\* What a failed removal of the source can leave: os.Remove leaves the
\* file; os.RemoveAll removes everything it can before it reports.
SourceLeft(obj, isDir) == IF isDir /\ IsDir(obj) THEN {obj, Partial(obj)} ELSE {obj}

\* The cache with cp holding obj (NoObj: unchanged).
CachePut(c, cp, obj) ==
  IF obj = NoObj THEN c
  ELSE [x \in (DOMAIN c) \cup {cp} |-> IF x = cp THEN obj ELSE c[x]]

\* The cache without the paths in cps.
CacheRemove(c, cps) == [x \in (DOMAIN c) \ cps |-> c[x]]

\* The cache path cp after a move out of it left obj there.
CacheSet(c, cp, obj) ==
  IF obj = NoObj THEN CacheRemove(c, {cp}) ELSE CachePut(c, cp, obj)

\* The cache directory right after os.RemoveAll and os.MkdirAll.
EmptyCache == [x \in {} |-> NoObj]

FileMoveErr == [type |-> "FileMoveMsg", Err |-> TRUE, Item |-> NoItem]
RestoreErr == [type |-> "RestoreMsg", Err |-> TRUE, Item |-> NoItem]

(* --------------------------- moveFileToCache --------------------------- *)

\* moveFileToCache up to the end of the copy: os.Stat, time.Now, and
\* MoveFile / MoveDirectory short of the removal of the source.
MoveToCacheStart(p) ==
  /\ AtStep(p, "moveFileToCache", "start")
  /\ LET filename == cmd[p].filename
         obj == Walked(filename)
     IN  IF obj = NoObj
           THEN /\ Send(p, FileMoveErr)
                /\ UNCHANGED <<fs, cache, now, faults>>
           ELSE \E t \in ClockReadings, sameFs \in BOOLEAN, outcome \in CopyOutcomes :
                  /\ outcome # "ok" => (CanFail /\ ~(IsDir(obj) /\ sameFs))
                  /\ faults' = IF outcome = "ok" THEN faults ELSE faults + 1
                  /\ now' = t
                  /\ LET r == Move(fs[filename], IsDir(obj), sameFs, outcome)
                     IN  /\ fs' = [fs EXCEPT ![filename] = r.src]
                         /\ cache' = CachePut(cache, CachePathOf(t, filename), r.dst)
                         /\ IF r.err
                              THEN Send(p, FileMoveErr)
                              ELSE Continue(p, [ name   |-> "moveFileToCache",
                                                 pc     |-> IF r.src = NoObj THEN "addLoad" ELSE "remove",
                                                 sameFs |-> sameFs,
                                                 item   |-> MakeItem(filename, obj, t) ])
  /\ UNCHANGED <<indexFile, m, running, answeredYes, disk0, out>>

\* The end of MoveFile / MoveDirectory in moveFileToCache: os.Remove or
\* os.RemoveAll of the source.
MoveToCacheRemove(p) ==
  /\ AtStep(p, "moveFileToCache", "remove")
  /\ LET filename == cmd[p].item.OriginalPath
     IN  \/ /\ fs' = [fs EXCEPT ![filename] = NoObj]
            /\ Continue(p, [cmd[p] EXCEPT !.pc = "addLoad"])
            /\ UNCHANGED faults
         \/ /\ CanFail
            /\ faults' = faults + 1
            /\ \E left \in SourceLeft(fs[filename], cmd[p].item.IsDirectory) :
                 fs' = [fs EXCEPT ![filename] = left]
            /\ Send(p, FileMoveErr)
  /\ UNCHANGED <<cache, indexFile, now, m, running, answeredYes, disk0, out>>

\* helpers.AddToIndex: LoadIndex
AddToIndexLoad(p) ==
  /\ AtStep(p, "moveFileToCache", "addLoad")
  /\ \E readFails \in BOOLEAN :
       /\ readFails => (CanFail /\ indexFile.state = "ok")
       /\ faults' = IF readFails THEN faults + 1 ELSE faults
       /\ LET r == LoadIndex(indexFile, readFails)
          IN  IF r.err
                THEN Send(p, FileMoveErr)
                ELSE Continue(p, [cmd[p] EXCEPT !.pc = "addSave"] @@ [items |-> r.items])
  /\ UNCHANGED <<fs, cache, indexFile, now, m, running, answeredYes, disk0, out>>

\* helpers.AddToIndex: append and SaveIndex
AddToIndexSave(p) ==
  /\ AtStep(p, "moveFileToCache", "addSave")
  /\ \E outcome \in SaveOutcomes :
       /\ outcome # "ok" => CanFail
       /\ faults' = IF outcome = "ok" THEN faults ELSE faults + 1
       /\ indexFile' = SaveIndex(indexFile, Append(cmd[p].items, cmd[p].item), outcome)
       /\ IF outcome = "ok"
            THEN Send(p, [type |-> "FileMoveMsg", Err |-> FALSE, Item |-> cmd[p].item])
            ELSE Send(p, FileMoveErr)
  /\ UNCHANGED <<fs, cache, now, m, running, answeredYes, disk0, out>>

\* An Update for types.FileMoveMsg that would put the item in front of the
\* processed ones.
UpdateFileMoveMsgPrepending(p) ==
  /\ Receives(p, "FileMoveMsg")
  /\ IF inbox[p].Err
       THEN Returns(p, Failed(m[p], "Error processing item"), NoCmd)
       ELSE LET mm == IF inbox[p].Item.ID # NoItem.ID
                        THEN [m[p] EXCEPT !.ProcessedItems = <<inbox[p].Item>> \o @,
                                          !.ProcessedFiles = @ + 1]
                        ELSE m[p]
                nextIndex == FindNextValidFile(mm.FileInfos, mm.CurrentIndex + 1)
            IN  IF nextIndex # -1
                  THEN Returns(p, [mm EXCEPT !.CurrentIndex = nextIndex],
                               processNextItem([mm EXCEPT !.CurrentIndex = nextIndex]))
                  ELSE Returns(p, [mm EXCEPT !.State = "cleanup"],
                               [name |-> "cleanupOldFiles", pc |-> "load"])
  /\ UNCHANGED <<fs, cache, indexFile, now, running, faults, answeredYes, disk0, out>>

\* Update, types.FileMoveMsg
UpdateFileMoveMsg(p) ==
  /\ Receives(p, "FileMoveMsg")
  /\ IF inbox[p].Err
       THEN Returns(p, Failed(m[p], "Error processing item"), NoCmd)
       ELSE LET mm == IF inbox[p].Item.ID # NoItem.ID
                        THEN [m[p] EXCEPT !.ProcessedItems = Append(@, inbox[p].Item),
                                          !.ProcessedFiles = @ + 1]
                        ELSE m[p]
                nextIndex == FindNextValidFile(mm.FileInfos, mm.CurrentIndex + 1)
            IN  IF nextIndex # -1
                  THEN Returns(p, [mm EXCEPT !.CurrentIndex = nextIndex],
                               processNextItem([mm EXCEPT !.CurrentIndex = nextIndex]))
                  ELSE Returns(p, [mm EXCEPT !.State = "cleanup"],
                               [name |-> "cleanupOldFiles", pc |-> "load"])
  /\ UNCHANGED <<fs, cache, indexFile, now, running, faults, answeredYes, disk0, out>>

(* --------------------------- restoreFromCache -------------------------- *)

\* The directory entry at the cache path cp.
CacheEntry(cp) == IF cp \in DOMAIN cache THEN cache[cp] ELSE NoObj

\* A check that would look for the cached object only.
RestoreRefusedNoCollision(item) == item.CachePath \notin DOMAIN cache

\* The two os.Stat checks of restoreFromCache: the cached object is not
\* there, or something is at the original path.
RestoreRefused(item) ==
  \/ item.CachePath \notin DOMAIN cache
  \/ Referent(CacheEntry(item.CachePath)) = NoObj
  \/ fs[item.OriginalPath] # NoObj

\* restoreFromCache up to the end of the copy: the two os.Stat checks and
\* MoveFile / MoveDirectory short of the removal of the cached object.
RestoreStart(p) ==
  /\ AtStep(p, "restoreFromCache", "start")
  /\ LET item == cmd[p].item
     IN  IF RestoreRefused(item)
           THEN /\ Send(p, RestoreErr)
                /\ UNCHANGED <<fs, cache, faults>>
           ELSE \E sameFs \in BOOLEAN, outcome \in CopyOutcomes :
                  /\ outcome # "ok" => (CanFail /\ ~(item.IsDirectory /\ sameFs))
                  /\ faults' = IF outcome = "ok" THEN faults ELSE faults + 1
                  /\ LET r == Move(cache[item.CachePath], item.IsDirectory, sameFs, outcome)
                     IN  /\ fs' = [fs EXCEPT ![item.OriginalPath] = r.dst]
                         /\ cache' = CacheSet(cache, item.CachePath, r.src)
                         /\ IF r.err
                              THEN Send(p, RestoreErr)
                              ELSE Continue(p, [cmd[p] EXCEPT !.pc =
                                                  IF r.src = NoObj THEN "rmLoad" ELSE "remove"]
                                                @@ [sameFs |-> sameFs])
  /\ UNCHANGED <<indexFile, now, m, running, answeredYes, disk0, out>>

\* The end of MoveFile / MoveDirectory in restoreFromCache: os.Remove or
\* os.RemoveAll of the cached object.
RestoreRemove(p) ==
  /\ AtStep(p, "restoreFromCache", "remove")
  /\ LET cp == cmd[p].item.CachePath
     IN  \/ /\ cache' = CacheRemove(cache, {cp})
            /\ Continue(p, [cmd[p] EXCEPT !.pc = "rmLoad"])
            /\ UNCHANGED faults
         \/ /\ CanFail
            /\ cp \in DOMAIN cache
            /\ faults' = faults + 1
            /\ \E left \in SourceLeft(cache[cp], cmd[p].item.IsDirectory) :
                 cache' = CachePut(cache, cp, left)
            /\ Send(p, RestoreErr)
  /\ UNCHANGED <<fs, indexFile, now, m, running, answeredYes, disk0, out>>

\* How restoreFromCache ends once the file is back: the error of
\* RemoveFromIndex is only logged, and a failure to log returns nil, a
\* message the event loop drops.
RestoreEnds(p, indexErr, logFails) ==
  IF indexErr /\ Config.LoggingEnabled /\ logFails
    THEN Send(p, NoMsg)
    ELSE Send(p, [type |-> "RestoreMsg", Err |-> FALSE, Item |-> cmd[p].item])

\* The failures injected in one step, as a number.
Count(failed) == IF failed THEN 1 ELSE 0

\* helpers.RemoveFromIndex: LoadIndex
RemoveFromIndexLoad(p) ==
  /\ AtStep(p, "restoreFromCache", "rmLoad")
  /\ \E readFails \in BOOLEAN, logFails \in BOOLEAN :
       /\ readFails => indexFile.state = "ok"
       /\ logFails => LoadIndex(indexFile, readFails).err
       /\ faults + Count(readFails) + Count(logFails) <= MaxFaults
       /\ faults' = faults + Count(readFails) + Count(logFails)
       /\ LET r == LoadIndex(indexFile, readFails)
          IN  IF r.err
                THEN RestoreEnds(p, TRUE, logFails)
                ELSE Continue(p, [cmd[p] EXCEPT !.pc = "rmSave"] @@ [items |-> r.items])
  /\ UNCHANGED <<fs, cache, indexFile, now, m, running, answeredYes, disk0, out>>

\* helpers.RemoveFromIndex: filter and SaveIndex
RemoveFromIndexSave(p) ==
  /\ AtStep(p, "restoreFromCache", "rmSave")
  /\ \E outcome \in SaveOutcomes, logFails \in BOOLEAN :
       /\ logFails => outcome # "ok"
       /\ faults + Count(outcome # "ok") + Count(logFails) <= MaxFaults
       /\ faults' = faults + Count(outcome # "ok") + Count(logFails)
       /\ indexFile' = SaveIndex(indexFile, RemoveID(cmd[p].items, cmd[p].item.ID), outcome)
       /\ RestoreEnds(p, outcome # "ok", logFails)
  /\ UNCHANGED <<fs, cache, now, m, running, answeredYes, disk0, out>>

\* Update, types.RestoreMsg
UpdateRestoreMsg(p) ==
  /\ Receives(p, "RestoreMsg")
  /\ IF inbox[p].Err
       THEN Returns(p, Failed(m[p], "Error restoring item"), NoCmd)
       ELSE LET mm == IF inbox[p].Item.ID # NoItem.ID
                        THEN [m[p] EXCEPT !.ProcessedItems = Append(@, inbox[p].Item),
                                          !.ProcessedFiles = @ + 1,
                                          !.CurrentIndex = @ + 1]
                        ELSE [m[p] EXCEPT !.CurrentIndex = @ + 1]
            IN  IF mm.CurrentIndex < Len(mm.RestoreItems)
                  THEN Returns(p, mm, processNextItem(mm))
                  ELSE Returns(p, [mm EXCEPT !.State = "done"], NoCmd)
  /\ UNCHANGED <<fs, cache, indexFile, now, running, faults, answeredYes, disk0, out>>

(* ------------------------------- cleanup ------------------------------- *)

\* The loop of cleanupOldFiles and PurgeOldFiles: the items kept.
Remaining(items, cutoff) == SelectSeq(items, LAMBDA it : ~Expired(it, cutoff))

\* The cache paths the loop removes.
ExpiredPaths(items, cutoff) ==
  { items[i].CachePath : i \in { j \in 1..Len(items) : Expired(items[j], cutoff) } }

\* purgedCount
PurgedCount(items, cutoff) == Len(items) - Len(Remaining(items, cutoff))

\* The sets of cache paths on which os.Remove / os.RemoveAll may fail in
\* one run of the loop; the loop drops the error and goes on.
StuckSets(c, items, cutoff) == SUBSET (ExpiredPaths(items, cutoff) \cap DOMAIN c)

\* cleanupOldFiles: time.Now and LoadIndex
CleanupLoad(p) ==
  /\ AtStep(p, "cleanupOldFiles", "load")
  /\ \E t \in ClockReadings, readFails \in BOOLEAN :
       /\ readFails => (CanFail /\ indexFile.state = "ok")
       /\ faults' = faults + Count(readFails)
       /\ now' = t
       /\ LET r == LoadIndex(indexFile, readFails)
          IN  IF r.err
                THEN Send(p, [type |-> "ErrorMsg"])
                ELSE Continue(p, [ name |-> "cleanupOldFiles", pc |-> "save", items |-> r.items,
                                   cutoff |-> Cutoff(t, Config.Days) ])
  /\ UNCHANGED <<fs, cache, indexFile, m, running, answeredYes, disk0, out>>

\* cleanupOldFiles: the removals and SaveIndex
CleanupSave(p) ==
  /\ AtStep(p, "cleanupOldFiles", "save")
  /\ \E outcome \in SaveOutcomes, stuck \in StuckSets(cache, cmd[p].items, cmd[p].cutoff) :
       /\ faults + Count(outcome # "ok") + Count(stuck # {}) <= MaxFaults
       /\ faults' = faults + Count(outcome # "ok") + Count(stuck # {})
       /\ cache' = CacheRemove(cache, ExpiredPaths(cmd[p].items, cmd[p].cutoff) \ stuck)
       /\ indexFile' = SaveIndex(indexFile, Remaining(cmd[p].items, cmd[p].cutoff), outcome)
       /\ IF outcome = "ok"
            THEN Send(p, [type |-> "CleanupMsg"])
            ELSE Send(p, [type |-> "ErrorMsg"])
  /\ UNCHANGED <<fs, now, m, running, answeredYes, disk0, out>>

\* Update, types.CleanupMsg
UpdateCleanupMsg(p) ==
  /\ Receives(p, "CleanupMsg")
  /\ Returns(p, [m[p] EXCEPT !.State = "done"], NoCmd)
  /\ UNCHANGED <<fs, cache, indexFile, now, running, faults, answeredYes, disk0, out>>

(* -------------------------------- purge -------------------------------- *)

Digits == <<"0", "1", "2", "3", "4", "5", "6", "7", "8", "9">>

IsDigit(ch) == \E d \in 1..10 : Digits[d] = ch

DigitValue(ch) == (CHOOSE d \in 1..10 : Digits[d] = ch) - 1

RECURSIVE DigitsValue(_)
DigitsValue(s) ==
  IF s = <<>> THEN 0
  ELSE 10 * DigitsValue(SubSeq(s, 1, Len(s) - 1)) + DigitValue(s[Len(s)])

\* strconv.Atoi: [err, n], an optional sign and decimal digits.
Atoi(s) ==
  LET body == IF s # <<>> /\ Head(s) \in {"-", "+"} THEN Tail(s) ELSE s
  IN  IF body = <<>> \/ \E i \in 1..Len(body) : ~IsDigit(body[i])
        THEN [err |-> TRUE, n |-> 0]
        ELSE [err |-> FALSE,
              n |-> IF Head(s) = "-" THEN 0 - DigitsValue(body) ELSE DigitsValue(body)]

PurgeErr == [type |-> "PurgeMsg", Err |-> TRUE, PurgedCount |-> 0]

\* PurgeOldFiles: Atoi, time.Now and LoadIndex
PurgeLoad(p) ==
  /\ AtStep(p, "PurgeOldFiles", "load")
  /\ IF Atoi(cmd[p].days).err
       THEN /\ Send(p, PurgeErr)
            /\ UNCHANGED <<now, faults>>
       ELSE \E t \in ClockReadings, readFails \in BOOLEAN :
              /\ readFails => (CanFail /\ indexFile.state = "ok")
              /\ faults' = faults + Count(readFails)
              /\ now' = t
              /\ LET r == LoadIndex(indexFile, readFails)
                 IN  IF r.err
                       THEN Send(p, PurgeErr)
                       ELSE Continue(p, [ name |-> "PurgeOldFiles", pc |-> "save", items |-> r.items,
                                          cutoff |-> Cutoff(t, Atoi(cmd[p].days).n) ])
  /\ UNCHANGED <<fs, cache, indexFile, m, running, answeredYes, disk0, out>>

\* PurgeOldFiles: the removals and SaveIndex
PurgeSave(p) ==
  /\ AtStep(p, "PurgeOldFiles", "save")
  /\ \E outcome \in SaveOutcomes, stuck \in StuckSets(cache, cmd[p].items, cmd[p].cutoff) :
       /\ faults + Count(outcome # "ok") + Count(stuck # {}) <= MaxFaults
       /\ faults' = faults + Count(outcome # "ok") + Count(stuck # {})
       /\ cache' = CacheRemove(cache, ExpiredPaths(cmd[p].items, cmd[p].cutoff) \ stuck)
       /\ indexFile' = SaveIndex(indexFile, Remaining(cmd[p].items, cmd[p].cutoff), outcome)
       /\ IF outcome = "ok"
            THEN Send(p, [ type |-> "PurgeMsg", Err |-> FALSE,
                           PurgedCount |-> PurgedCount(cmd[p].items, cmd[p].cutoff) ])
            ELSE Send(p, PurgeErr)
  /\ UNCHANGED <<fs, now, m, running, answeredYes, disk0, out>>

\* Update, types.PurgeMsg
UpdatePurgeMsg(p) ==
  /\ Receives(p, "PurgeMsg")
  /\ IF inbox[p].Err
       THEN Returns(p, Failed(m[p], "Error purging cache"), NoCmd)
       ELSE Returns(p, [m[p] EXCEPT !.ProcessedFiles = inbox[p].PurgedCount,
                                     !.State = "done"], NoCmd)
  /\ UNCHANGED <<fs, cache, indexFile, now, running, faults, answeredYes, disk0, out>>

(* -------------------------------- clear -------------------------------- *)

\* How ClearAllCache can end: done, os.RemoveAll fails, SaveIndex fails,
\* the line for vanish.log cannot be written.
ClearOutcomes == {"ok", "removeAllFails", "openFails", "writeFails", "logFails"}

\* The index file ClearAllCache leaves once the directory is recreated.
ClearedIndex(outcome) ==
  IF outcome = "logFails" THEN OkIndex(<<>>) ELSE SaveIndex(AbsentIndex, <<>>, outcome)

\* A clear that would spare the entries inside the retention window.
ClearAllCacheKeepsRecent(p) ==
  /\ running[p]
  /\ cmd[p].name = "ClearAllCache"
  /\ cache' = CacheRemove(cache, ExpiredPaths(indexFile.items, Cutoff(now, Config.Days)))
  /\ indexFile' = OkIndex(Remaining(indexFile.items, Cutoff(now, Config.Days)))
  /\ Send(p, [type |-> "ClearMsg", Err |-> FALSE])
  /\ UNCHANGED <<fs, now, m, running, faults, answeredYes, disk0, out>>

\* helpers.ClearAllCache: os.RemoveAll, os.MkdirAll, SaveIndex of an empty
\* index, the log line. index.json lies in the cache directory and goes
\* with it; an os.RemoveAll that fails has removed what it could.
ClearAllCache(p) ==
  /\ running[p]
  /\ cmd[p].name = "ClearAllCache"
  /\ \E outcome \in ClearOutcomes :
       /\ outcome # "ok" => CanFail
       /\ faults' = faults + Count(outcome # "ok")
       /\ IF outcome = "removeAllFails"
            THEN \E kept \in SUBSET (DOMAIN cache), indexGone \in BOOLEAN :
                   /\ cache' = CacheRemove(cache, (DOMAIN cache) \ kept)
                   /\ indexFile' = IF indexGone THEN AbsentIndex ELSE indexFile
            ELSE /\ cache' = EmptyCache
                 /\ indexFile' = ClearedIndex(outcome)
       /\ Send(p, [type |-> "ClearMsg", Err |-> (outcome # "ok")])
  /\ UNCHANGED <<fs, now, m, running, answeredYes, disk0, out>>

\* Update, types.ClearMsg
UpdateClearMsg(p) ==
  /\ Receives(p, "ClearMsg")
  /\ IF inbox[p].Err
       THEN Returns(p, Failed(m[p], "Error clearing cache"), NoCmd)
       ELSE Returns(p, [m[p] EXCEPT !.State = "done"], NoCmd)
  /\ UNCHANGED <<fs, cache, indexFile, now, running, faults, answeredYes, disk0, out>>

(* -------------------------------- stats -------------------------------- *)

\* expiredCount of ShowStats: the items whose DeleteDate is before the cutoff.
ExpiredCount(items, cutoff) ==
  Cardinality({ i \in 1..Len(items) : Expired(items[i], cutoff) })

\* commands.ShowStats: LoadIndex, time.Now, the counting loop, the report.
\* It runs outside the bubbletea program and the process ends with it.
ShowStats(p) ==
  /\ running[p]
  /\ cmd[p].name = "ShowStats"
  /\ \E t \in ClockReadings, readFails \in BOOLEAN :
       /\ readFails => (CanFail /\ indexFile.state = "ok")
       /\ faults' = faults + Count(readFails)
       /\ LET r == LoadIndex(indexFile, readFails)
          IN  IF r.err
                THEN /\ out' = [out EXCEPT ![p] = [kind |-> "error"]]
                     /\ UNCHANGED now
                ELSE IF Len(r.items) = 0
                  THEN /\ out' = [out EXCEPT ![p] =
                            [kind |-> "empty", Text |-> "Cache is empty."]]
                       /\ UNCHANGED now
                  ELSE /\ now' = t
                       /\ out' = [out EXCEPT ![p] =
                            [ kind         |-> "stats",
                              TotalItems   |-> Len(r.items),
                              Directories  |-> Cardinality({ i \in 1..Len(r.items) : r.items[i].IsDirectory }),
                              Files        |-> Cardinality({ i \in 1..Len(r.items) : ~r.items[i].IsDirectory }),
                              ExpiredCount |-> ExpiredCount(r.items, Cutoff(t, Config.Days)) ]]
  /\ Quit(p)
  /\ UNCHANGED <<fs, cache, indexFile, m, answeredYes, disk0>>

\* A list query that would print the index in the order of the file.
IndexOrder(items) == items

\* One pass of the insertion sort sort.Slice runs on a short slice: `it`
\* moves left past every neighbour it was deleted after.
InsertByDeleteDate(sorted, it) ==
  LET passed == { j \in 0..Len(sorted) :
                    \A i \in (Len(sorted) - j + 1)..Len(sorted) :
                      it.DeleteDate > sorted[i].DeleteDate }
      k == CHOOSE j \in passed : \A j2 \in passed : j2 <= j
  IN  SubSeq(sorted, 1, Len(sorted) - k) \o <<it>>
        \o SubSeq(sorted, Len(sorted) - k + 1, Len(sorted))

\* The first n items as the sort leaves them.
RECURSIVE SortedPrefix(_, _)
SortedPrefix(items, n) ==
  IF n = 0 THEN <<>> ELSE InsertByDeleteDate(SortedPrefix(items, n - 1), items[n])

\* sort.Slice(index.Items, ...DeleteDate.After...) of ShowList.
SortByDeleteDate(items) == SortedPrefix(items, Len(items))

\* int(x / 24) on the float64 x: the quotient loses its fraction, towards
\* zero.
IntOfQuotient(h, d) == IF h >= 0 THEN h \div d ELSE -((-h) \div d)

\* expiryDate := item.DeleteDate.Add(time.Duration(config.Cache.Days) * 24 * time.Hour)
ExpiryDate(item, days) == item.DeleteDate + DurationOfDays(days)

\* daysLeft := int(time.Until(expiryDate).Hours() / 24), the clock reading t.
DaysLeft(item, t, days) == IntOfQuotient(ExpiryDate(item, days) - t, HoursPerDay)

\* status of a line of ShowList.
ListStatus(daysLeft) ==
  IF daysLeft <= 0 THEN "EXPIRED" ELSE IF daysLeft <= 2 THEN "EXPIRING" ELSE "OK"

\* A list query that would write the sorted index back to its file.
ShowListSaving(p) ==
  /\ running[p]
  /\ cmd[p].name = "ShowList"
  /\ indexFile' = OkIndex(SortByDeleteDate(LoadIndex(indexFile, FALSE).items))
  /\ out' = [out EXCEPT ![p] = [kind |-> "error"]]
  /\ Quit(p)
  /\ UNCHANGED <<fs, cache, now, faults, m, answeredYes, disk0>>

\* commands.ShowList: LoadIndex, the sort, one line per item with its
\* status and days left.
ShowList(p) ==
  /\ running[p]
  /\ cmd[p].name = "ShowList"
  /\ \E t \in ClockReadings, readFails \in BOOLEAN :
       /\ readFails => (CanFail /\ indexFile.state = "ok")
       /\ faults' = faults + Count(readFails)
       /\ LET r == LoadIndex(indexFile, readFails)
              lines == SortByDeleteDate(r.items)
              days == [i \in 1..Len(lines) |-> DaysLeft(lines[i], t, Config.Days)]
          IN  IF r.err
                THEN /\ out' = [out EXCEPT ![p] = [kind |-> "error"]]
                     /\ UNCHANGED now
                ELSE IF Len(r.items) = 0
                  THEN /\ out' = [out EXCEPT ![p] =
                            [kind |-> "empty", Text |-> "No cached files found."]]
                       /\ UNCHANGED now
                  ELSE /\ now' = t
                       /\ out' = [out EXCEPT ![p] =
                            [ kind     |-> "list",
                              Lines    |-> lines,
                              Status   |-> [i \in 1..Len(lines) |-> ListStatus(days[i])],
                              DaysLeft |-> days ]]
  /\ Quit(p)
  /\ UNCHANGED <<fs, cache, indexFile, m, answeredYes, disk0>>

\* matchingItems of ShowInfo: the items whose path contains the pattern,
\* letter case aside, in the order of the index.
InfoMatches(items, pattern) ==
  SelectSeq(items, LAMBDA it : Contains(ToLower(it.OriginalPath), ToLower(pattern)))

\* The last lines ShowInfo prints for an item: the days left when there
\* are any, else that it is expired.
InfoExpiry(daysLeft) ==
  IF daysLeft > 0 THEN [Status |-> "Expires", DaysLeft |-> <<daysLeft>>]
  ELSE [Status |-> "EXPIRED", DaysLeft |-> <<>>]

\* commands.ShowInfo: LoadIndex, the matching loop, one block per match.
ShowInfo(p) ==
  /\ running[p]
  /\ cmd[p].name = "ShowInfo"
  /\ \E t \in ClockReadings, readFails \in BOOLEAN :
       /\ readFails => (CanFail /\ indexFile.state = "ok")
       /\ faults' = faults + Count(readFails)
       /\ LET r == LoadIndex(indexFile, readFails)
              found == InfoMatches(r.items, cmd[p].pattern)
          IN  IF r.err
                THEN /\ out' = [out EXCEPT ![p] = [kind |-> "error"]]
                     /\ UNCHANGED now
                ELSE IF Len(found) = 0
                  THEN /\ out' = [out EXCEPT ![p] =
                            [kind |-> "notFound", Pattern |-> cmd[p].pattern]]
                       /\ UNCHANGED now
                  ELSE /\ now' = t
                       /\ out' = [out EXCEPT ![p] =
                            [ kind    |-> "info",
                              Pattern |-> cmd[p].pattern,
                              Items   |-> found,
                              Expiry |-> [i \in 1..Len(found) |->
                                           InfoExpiry(DaysLeft(found[i], t, Config.Days))] ]]
  /\ Quit(p)
  /\ UNCHANGED <<fs, cache, indexFile, m, answeredYes, disk0>>

(* ---------------------------- SafeDelete ------------------------------- *)

\* The DeletedItem filesystem.MoveFileToCache returns; no backup is made
\* under the default configuration.
FilesystemItem(filename, obj, t) ==
  MakeItem(filename, obj, t)
    @@ [IsProtected |-> IsProtectedPath(filename, Config.ProtectedPaths), BackupPath |-> <<>>]

\* How the move of one target can go.
SafeMoveOutcomes == {"ok", "openFails", "copyFails", "removeFails"}

\* filesystem.MoveFile: os.Open, os.Create, io.Copy, Chmod to the mode of
\* the source, os.Remove: [err, src, dst].
FilesystemMoveFile(obj, outcome) ==
  CASE outcome = "ok"          -> [err |-> FALSE, src |-> NoObj, dst |-> Referent(obj)]
    [] outcome = "openFails"   -> [err |-> TRUE,  src |-> obj,   dst |-> NoObj]
    [] outcome = "copyFails"   -> [err |-> TRUE,  src |-> obj,   dst |-> Partial(Referent(obj))]
    [] OTHER                   -> [err |-> TRUE,  src |-> obj,   dst |-> Referent(obj)]

\* filesystem.MoveDirectory: os.Rename, else CopyDirectory and
\* os.RemoveAll.
FilesystemMoveDirectory(obj, sameFs, outcome) ==
  LET r == MoveDirectory(obj, sameFs, outcome)
  IN  IF r.err \/ sameFs THEN r
      ELSE IF outcome = "removeFails" THEN [r EXCEPT !.err = TRUE]
      ELSE [r EXCEPT !.src = NoObj]

\* One turn of the loop of SafeDelete: MoveFileToCache on the next target,
\* then the log and the line printed. The index is not touched.
SafeDeleteItem(p) ==
  /\ running[p]
  /\ cmd[p].name = "SafeDelete"
  /\ cmd[p].i <= Len(cmd[p].targets)
  /\ LET filename == cmd[p].targets[cmd[p].i]
         obj == Walked(filename)
         next == [cmd[p] EXCEPT !.i = @ + 1]
     IN  IF obj = NoObj
           THEN /\ cmd' = [cmd EXCEPT ![p] = next]
                /\ UNCHANGED <<fs, cache, now, faults>>
           ELSE \E t \in ClockReadings, sameFs \in BOOLEAN, outcome \in SafeMoveOutcomes :
                  /\ outcome # "ok" => (CanFail /\ ~(IsDir(obj) /\ sameFs))
                  /\ faults' = faults + Count(outcome # "ok")
                  /\ now' = t
                  /\ LET r == IF IsDir(obj)
                                THEN FilesystemMoveDirectory(fs[filename], sameFs, outcome)
                                ELSE FilesystemMoveFile(fs[filename], outcome)
                     IN  /\ fs' = [fs EXCEPT ![filename] = r.src]
                         /\ cache' = CachePut(cache, CachePathOf(t, filename), r.dst)
                         /\ cmd' = [cmd EXCEPT ![p] =
                                      IF r.err THEN next
                                      ELSE [next EXCEPT !.moved =
                                              Append(@, FilesystemItem(filename, obj, t))]]
  /\ UNCHANGED <<indexFile, m, inbox, running, answeredYes, disk0, out>>

\* SafeDelete returns nil after the last target; RunApp returns with it.
SafeDeleteReturns(p) ==
  /\ running[p]
  /\ cmd[p].name = "SafeDelete"
  /\ cmd[p].i > Len(cmd[p].targets)
  /\ out' = [out EXCEPT ![p] = [kind |-> "SafeDelete", Deleted |-> cmd[p].moved]]
  /\ Quit(p)
  /\ UNCHANGED <<fs, cache, indexFile, now, m, faults, answeredYes, disk0>>

(* ----------------------------- arguments ------------------------------- *)

\* ParsedArgs{} before the loop; Exit tells how the process left ParseArgs
\* early, if it did.
NoArgsParsed == [kind |-> "ParsedArgs", Operation |-> "", Filenames |-> <<>>,
                 NoConfirm |-> FALSE, Exit |-> "no"]

\* The loop of ParseArgs from args[i] on. --restore and the first plain
\* argument take every argument that follows and end the loop.
RECURSIVE ParseFrom(_, _, _)
ParseFrom(args, i, st) ==
  IF i > Len(args) THEN st
  ELSE CASE args[i] = "--list" -> [st EXCEPT !.Exit = "exit"]
         [] args[i] = "--clear" ->
              ParseFrom(args, i + 1, [st EXCEPT !.Operation = "clear", !.Filenames = <<"">>])
         [] args[i] = "--noconfirm" ->
              ParseFrom(args, i + 1, [st EXCEPT !.NoConfirm = TRUE])
         [] args[i] = "--restore" ->
              IF i + 1 <= Len(args)
                THEN [st EXCEPT !.Operation = "restore",
                                !.Filenames = SubSeq(args, i + 1, Len(args))]
                ELSE [st EXCEPT !.Operation = "restore", !.Exit = "fatal"]
         [] args[i] = "--purge" ->
              IF i + 1 <= Len(args)
                THEN ParseFrom(args, i + 2,
                               [st EXCEPT !.Operation = "purge", !.Filenames = <<args[i + 1]>>])
                ELSE [st EXCEPT !.Exit = "fatal"]
         [] OTHER ->
              IF st.Operation = ""
                THEN [st EXCEPT !.Operation = "delete",
                                !.Filenames = SubSeq(args, i, Len(args))]
                ELSE ParseFrom(args, i + 1, st)

\* ParseArgs: the loop, then the fallback to a delete of every argument
\* but --noconfirm when the loop chose no operation.
ParseArgs(args) ==
  LET st == ParseFrom(args, 1, NoArgsParsed)
  IN  IF st.Exit = "no" /\ st.Operation = "" /\ Len(st.Filenames) = 0 /\ Len(args) > 0
        THEN [st EXCEPT !.Operation = "delete",
                        !.Filenames = SelectSeq(args, LAMBDA a : a # "--noconfirm")]
        ELSE st

(* --------------------------- specifications ---------------------------- *)

\* What the user may do.
Key(p) == KeyYes(p) \/ KeyNo(p) \/ KeyEnter(p) \/ KeyQuit(p)

\* The steps of a delete invocation.
DeleteStep(p) ==
  \/ CheckFilesExist(p)
  \/ UpdateFilesExistMsg(p)
  \/ MoveToCacheStart(p)
  \/ MoveToCacheRemove(p)
  \/ AddToIndexLoad(p)
  \/ AddToIndexSave(p)
  \/ UpdateFileMoveMsg(p)
  \/ CleanupLoad(p)
  \/ CleanupSave(p)
  \/ UpdateCleanupMsg(p)
  \/ UpdateErrorMsg(p)

\* The steps of a restore invocation.
RestoreStep(p) ==
  \/ CheckRestoreItems(p)
  \/ UpdateRestoreItemsMsg(p)
  \/ RestoreStart(p)
  \/ RestoreRemove(p)
  \/ RemoveFromIndexLoad(p)
  \/ RemoveFromIndexSave(p)
  \/ UpdateRestoreMsg(p)

\* The steps of the bulk operations.
BulkStep(p) ==
  \/ ClearAllCache(p)
  \/ UpdateClearMsg(p)
  \/ PurgeLoad(p)
  \/ PurgeSave(p)
  \/ UpdatePurgeMsg(p)

\* The steps of the queries.
QueryStep(p) == ShowStats(p)

Next ==
  \E p \in Procs : Key(p) \/ DeleteStep(p) \/ RestoreStep(p) \/ BulkStep(p) \/ QueryStep(p)

\* One invocation of the tool, any operation.
Spec == Init /\ [][Next]_vars

\* Two invocations at once on the same cache: the first deletes one
\* target, the second deletes one target or restores by one pattern.
InitTwo ==
  \E t1 \in Paths, cl2 \in ({"delete"} \X { <<t>> : t \in Paths })
                             \cup ({"restore"} \X { <<pt>> : pt \in Patterns }),
     file \in { AbsentIndex, OkIndex(<<OldItem2>>) } :
    /\ fs = InitialFs(Paths)
    /\ cache = InitialCache(file)
    /\ indexFile = file
    /\ now = StartClock
    /\ m = [p \in Procs |-> IF p = 1 THEN Started("delete", <<t1>>, TRUE)
                                     ELSE Started(cl2[1], cl2[2], TRUE)]
    /\ cmd = [p \in Procs |-> IF p = 1 THEN InitCmd(Started("delete", <<t1>>, TRUE))
                                       ELSE InitCmd(Started(cl2[1], cl2[2], TRUE))]
    /\ inbox = [p \in Procs |-> NoMsg]
    /\ running = [p \in Procs |-> TRUE]
    /\ faults = 0
    /\ answeredYes = [p \in Procs |-> FALSE]
    /\ disk0 = <<InitialFs(Paths), InitialCache(file), file>>
    /\ out = [p \in Procs |-> NoOut]

NextTwo == \E p \in Procs : Key(p) \/ DeleteStep(p) \/ RestoreStep(p)

SpecTwo == InitTwo /\ [][NextTwo]_vars

\* Two symbolic links: to the file ax and to the directory cy.
PathLA == <<"l", "a">>
PathLC == <<"l", "c">>
LinkPaths == { PathLA, PathLC }
LinkTarget(path) == IF path = PathLA THEN PathAX ELSE PathCY

\* The entry an earlier delete of the link lc left in the index when the
\* cache was on the filesystem of lc: os.Rename moved the link.
OldLinkDate == StartClock - 2
OldLink ==
  MakeItem(PathLC, [InitialObj(PathCY) EXCEPT !.count = 0, !.size = Len(PathCY)], OldLinkDate)

\* The disk of a run among symbolic links: the files and the directory
\* are there, and each link is at its path or, for lc, in the cache.
LinkFs(file) ==
  [ path \in Paths \cup LinkPaths |->
      IF path \in Paths THEN InitialObj(path)
      ELSE IF path = PathLC /\ file # AbsentIndex THEN NoObj
      ELSE LinkTo(LinkTarget(path)) ]
LinkCache(file) ==
  [ cp \in { file.items[i].CachePath : i \in 1..Len(file.items) } |-> LinkTo(PathCY) ]

\* One invocation that deletes links or restores one.
InitLink ==
  \E cl \in ({"delete"} \X SeqsOf(LinkPaths, 1, 2)) \cup {<<"restore", << <<"l">> >> >>},
     noConfirm \in BOOLEAN, file \in {AbsentIndex, OkIndex(<<OldLink>>)} :
    /\ fs = LinkFs(file)
    /\ cache = LinkCache(file)
    /\ indexFile = file
    /\ now = StartClock
    /\ m = [p \in Procs |-> IF p = 1 THEN Started(cl[1], cl[2], noConfirm) ELSE OffModel]
    /\ cmd = [p \in Procs |-> IF p = 1 THEN InitCmd(Started(cl[1], cl[2], noConfirm)) ELSE NoCmd]
    /\ inbox = [p \in Procs |-> NoMsg]
    /\ running = [p \in Procs |-> p = 1]
    /\ faults = 0
    /\ answeredYes = [p \in Procs |-> FALSE]
    /\ disk0 = <<LinkFs(file), LinkCache(file), file>>
    /\ out = [p \in Procs |-> NoOut]

NextLink == \E p \in Procs : Key(p) \/ DeleteStep(p) \/ RestoreStep(p)

SpecLink == InitLink /\ [][NextLink]_vars

\* Largest number of entries in the index a list query is run on.
MaxListed == 3

\* The entries such an index may hold: any path, deleted at one of three
\* times.
ListedItems ==
  { MakeItem(path, InitialObj(path), StartClock - d) : path \in Paths, d \in 1..3 }

\* One list query, on an index file in any state.
InitList ==
  \E file \in { AbsentIndex, CorruptIndex }
                \cup { OkIndex(items) : items \in SeqsOf(ListedItems, 0, MaxListed) } :
    /\ fs = InitialFs({})
    /\ cache = InitialCache(file)
    /\ indexFile = file
    /\ now = StartClock
    /\ m = [p \in Procs |-> OffModel]
    /\ cmd = [p \in Procs |-> IF p = 1 THEN [name |-> "ShowList"] ELSE NoCmd]
    /\ inbox = [p \in Procs |-> NoMsg]
    /\ running = [p \in Procs |-> p = 1]
    /\ faults = 0
    /\ answeredYes = [p \in Procs |-> FALSE]
    /\ disk0 = <<InitialFs({}), InitialCache(file), file>>
    /\ out = [p \in Procs |-> NoOut]

NextList == \E p \in Procs : ShowList(p)

SpecList == InitList /\ [][NextList]_vars

\* Hours an entry of a queried index has left at the start, or is past its
\* retention: either side of zero and of the day boundaries.
QueryRemaining == { 0 - 25, 0 - 1, 23, 24, 49 }

\* The entries a queried index may hold.
QueryItems ==
  { MakeItem(path, InitialObj(path), StartClock - Config.Days * HoursPerDay + r) :
      path \in { PathAX, PathBX }, r \in QueryRemaining }

\* The queries of the command line: --list, --stats, --info <pattern>.
QueryCmds ==
  { [name |-> "ShowList"], [name |-> "ShowStats"] }
    \cup { [name |-> "ShowInfo", pattern |-> pat] : pat \in { <<"x">>, <<"A">>, <<"z">> } }

\* Two queries, one after the other in either order, on an index file in
\* any state.
InitQuery ==
  \E file \in { AbsentIndex, CorruptIndex }
                \cup { OkIndex(items) : items \in SeqsOf(QueryItems, 0, 2) },
     c1 \in QueryCmds, c2 \in QueryCmds :
    /\ fs = InitialFs({})
    /\ cache = InitialCache(file)
    /\ indexFile = file
    /\ now = StartClock
    /\ m = [p \in Procs |-> OffModel]
    /\ cmd = [p \in Procs |-> IF p = 1 THEN c1 ELSE c2]
    /\ inbox = [p \in Procs |-> NoMsg]
    /\ running = [p \in Procs |-> TRUE]
    /\ faults = 0
    /\ answeredYes = [p \in Procs |-> FALSE]
    /\ disk0 = <<InitialFs({}), InitialCache(file), file>>
    /\ out = [p \in Procs |-> NoOut]

NextQuery == \E p \in Procs : ShowList(p) \/ ShowStats(p) \/ ShowInfo(p)

SpecQuery == InitQuery /\ [][NextQuery]_vars

\* Longest command line ParseArgs is handed.
MaxArgs == 4

\* The words of a command line: flags, operations and two plain words.
ArgWords == { "--noconfirm", "--restore", "--clear", "--purge", "--list", "a", "b" }

\* One call of ParseArgs on any command line of at least one word.
InitArgs ==
  \E args \in SeqsOf(ArgWords, 1, MaxArgs) :
    /\ fs = InitialFs({})
    /\ cache = InitialCache(AbsentIndex)
    /\ indexFile = AbsentIndex
    /\ now = StartClock
    /\ m = [p \in Procs |-> OffModel]
    /\ cmd = [p \in Procs |-> IF p = 1 THEN [name |-> "ParseArgs", args |-> args] ELSE NoCmd]
    /\ inbox = [p \in Procs |-> NoMsg]
    /\ running = [p \in Procs |-> p = 1]
    /\ faults = 0
    /\ answeredYes = [p \in Procs |-> FALSE]
    /\ disk0 = <<InitialFs({}), InitialCache(AbsentIndex), AbsentIndex>>
    /\ out = [p \in Procs |-> NoOut]

\* The call returns its ParsedArgs, or the process leaves inside it.
CallParseArgs(p) ==
  /\ running[p]
  /\ cmd[p].name = "ParseArgs"
  /\ out[p] = NoOut
  /\ out' = [out EXCEPT ![p] = ParseArgs(cmd[p].args)]
  /\ UNCHANGED <<fs, cache, indexFile, now, m, cmd, inbox, running, faults, answeredYes, disk0>>

NextArgs == \E p \in Procs : CallParseArgs(p)

SpecArgs == InitArgs /\ [][NextArgs]_vars

\* The ids RemoveFromIndex is called with: those of the entries and one no
\* entry has.
RemovedIds == { StartClock - d : d \in 1..4 }

\* The index RemoveFromIndex is called on: up to MaxListed entries, several
\* of which may carry one id.
InitRemove ==
  \E file \in { AbsentIndex, CorruptIndex }
                \cup { OkIndex(items) : items \in SeqsOf(ListedItems, 0, MaxListed) },
     id1 \in RemovedIds, id2 \in RemovedIds :
    /\ fs = InitialFs({})
    /\ cache = InitialCache(file)
    /\ indexFile = file
    /\ now = StartClock
    /\ m = [p \in Procs |-> OffModel]
    /\ cmd = [p \in Procs |-> [name |-> "RemoveFromIndex", pc |-> "load",
                               id |-> IF p = 1 THEN id1 ELSE id2]]
    /\ inbox = [p \in Procs |-> NoMsg]
    /\ running = [p \in Procs |-> TRUE]
    /\ faults = 0
    /\ answeredYes = [p \in Procs |-> FALSE]
    /\ disk0 = <<InitialFs({}), InitialCache(file), file>>
    /\ out = [p \in Procs |-> NoOut]

\* The call returns err; the second call starts when the first is over.
RemoveReturns(p, err) ==
  /\ out' = [out EXCEPT ![p] = [kind |-> "RemoveFromIndex", err |-> err]]
  /\ cmd' = [cmd EXCEPT ![p].pc = "returned"]
  /\ running' = [running EXCEPT ![p] = FALSE]

\* helpers.RemoveFromIndex: LoadIndex
CallRemoveFromIndexLoad(p) ==
  /\ running[p]
  /\ cmd[p].name = "RemoveFromIndex"
  /\ cmd[p].pc = "load"
  /\ \A q \in Procs : q < p => ~running[q]
  /\ \E readFails \in BOOLEAN :
       /\ readFails => (CanFail /\ indexFile.state = "ok")
       /\ faults' = faults + Count(readFails)
       /\ LET r == LoadIndex(indexFile, readFails)
          IN  IF r.err
                THEN RemoveReturns(p, TRUE)
                ELSE /\ cmd' = [cmd EXCEPT ![p] = [cmd[p] EXCEPT !.pc = "save"] @@ [items |-> r.items]]
                     /\ UNCHANGED <<out, running>>
  /\ UNCHANGED <<fs, cache, indexFile, now, m, inbox, answeredYes, disk0>>

\* helpers.RemoveFromIndex: the filter and SaveIndex
CallRemoveFromIndexSave(p) ==
  /\ running[p]
  /\ cmd[p].name = "RemoveFromIndex"
  /\ cmd[p].pc = "save"
  /\ \E outcome \in SaveOutcomes :
       /\ outcome # "ok" => CanFail
       /\ faults' = faults + Count(outcome # "ok")
       /\ indexFile' = SaveIndex(indexFile, RemoveID(cmd[p].items, cmd[p].id), outcome)
       /\ RemoveReturns(p, outcome # "ok")
  /\ UNCHANGED <<fs, cache, now, m, inbox, answeredYes, disk0>>

NextRemove == \E p \in Procs : CallRemoveFromIndexLoad(p) \/ CallRemoveFromIndexSave(p)

SpecRemove == InitRemove /\ [][NextRemove]_vars

\* RunApp with autoConfirm: BuildTargets and SafeDelete on any targets,
\* any of them present, over any earlier index.
InitSafe ==
  \E filenames \in SeqsOf(Paths, 1, MaxTargets), present \in SUBSET Paths,
     file \in InitialIndexFiles :
    /\ fs = InitialFs(present)
    /\ cache = InitialCache(file)
    /\ indexFile = file
    /\ now = StartClock
    /\ m = [p \in Procs |-> OffModel]
    /\ cmd = [p \in Procs |-> IF p = 1
                                THEN [name |-> "SafeDelete", targets |-> filenames,
                                      i |-> 1, moved |-> <<>>]
                                ELSE NoCmd]
    /\ inbox = [p \in Procs |-> NoMsg]
    /\ running = [p \in Procs |-> p = 1]
    /\ faults = 0
    /\ answeredYes = [p \in Procs |-> FALSE]
    /\ disk0 = <<InitialFs(present), InitialCache(file), file>>
    /\ out = [p \in Procs |-> NoOut]

NextSafe == \E p \in Procs : SafeDeleteItem(p) \/ SafeDeleteReturns(p)

SpecSafe == InitSafe /\ [][NextSafe]_vars

\* Absolute paths CheckFileInfo may be asked about, and entries a
\* protected-path list may have.
InfoPaths ==
  { <<"/", "h">>, <<"/", "h", "2">>, <<"/", "h", "/", "k">>, <<"/", "u">>, <<"/", "u", "k">> }
InfoProtected == { <<"/", "h">>, <<"/", "u", "k">>, <<"/">> }

\* The objects it may find there: nothing, files and directories below, at
\* and above the two limits.
InfoObjs ==
  { NoObj }
    \cup { [kind |-> "file", data |-> "f", mode |-> 420, size |-> sz, count |-> 0] :
             sz \in {10, Config.LargeSizeLimit, Config.LargeSizeLimit + 1} }
    \cup { [kind |-> "dir", data |-> "d", mode |-> 493, size |-> sz, count |-> n] :
             sz \in {30, Config.LargeSizeLimit + 1},
             n \in {0, Config.LargeCountLimit, Config.LargeCountLimit + 1} }

\* The policies: any protected-path list, confirm_on_large on or off.
InfoConfigs ==
  { [Config EXCEPT !.ProtectedPaths = pp, !.ConfirmOnLarge = col] :
      pp \in SUBSET InfoProtected, col \in BOOLEAN }

\* One call of CheckFileInfo on one path.
InitInfo ==
  \E filename \in InfoPaths, obj \in InfoObjs, cfg \in InfoConfigs :
    /\ fs = [x \in {filename} |-> obj]
    /\ cache = <<>>
    /\ indexFile = AbsentIndex
    /\ now = StartClock
    /\ m = [p \in Procs |-> OffModel]
    /\ cmd = [p \in Procs |-> IF p = 1
                                THEN [name |-> "CheckFileInfo", filename |-> filename, cfg |-> cfg]
                                ELSE NoCmd]
    /\ inbox = [p \in Procs |-> NoMsg]
    /\ running = [p \in Procs |-> p = 1]
    /\ faults = 0
    /\ answeredYes = [p \in Procs |-> FALSE]
    /\ disk0 = <<[x \in {filename} |-> obj], <<>>, AbsentIndex>>
    /\ out = [p \in Procs |-> NoOut]

\* The call returns its FileInfo.
CallCheckFileInfo(p) ==
  /\ running[p]
  /\ cmd[p].name = "CheckFileInfo"
  /\ out' = [out EXCEPT ![p] = CheckFileInfo(cmd[p].filename, fs[cmd[p].filename], cmd[p].cfg)]
  /\ UNCHANGED <<fs, cache, indexFile, now, m, cmd, inbox, running, faults, answeredYes, disk0>>

NextInfo == \E p \in Procs : CallCheckFileInfo(p)

SpecInfo == InitInfo /\ [][NextInfo]_vars

(* ------------------------------- claims -------------------------------- *)

\* Process p has no command in flight and no message waiting.
AtRest(p) == cmd[p] = NoCmd /\ inbox[p] = NoMsg

\* The entries of the index file, as LoadIndex would hand them out.
IndexItems == indexFile.items

InIndex(item) == \E i \in 1..Len(IndexItems) : IndexItems[i] = item

\* Process p moved `path` into the cache and recorded it: the item is
\* among its processed items, its object is in the cache, its entry is in
\* the index.
MovedAndRecorded(p, path) ==
  \E k \in 1..Len(m[p].ProcessedItems) :
    LET item == m[p].ProcessedItems[k]
    IN  /\ item.OriginalPath = path
        /\ item.CachePath \in DOMAIN cache
        /\ InIndex(item)

\* The targets of p found on disk by the check, as indices from 1.
ValidTargets(p) == { i \in 1..Len(m[p].FileInfos) : m[p].FileInfos[i].Exists }

\* C1: in a delete batch, a target whose move failed does not stop the
\* batch: when the workflow has come to rest after recording the failure of
\* one target, every later target that exists, and is another path than the
\* failed one, has been moved to the cache and recorded in the index.
C1_FailureKeepsBatchGoing ==
  \A p \in Procs :
    ( /\ running[p]
      /\ AtRest(p)
      /\ m[p].Operation = "delete"
      /\ m[p].ErrorMsg = "Error processing item" )
    => \A i \in ValidTargets(p) :
         ( /\ i > m[p].CurrentIndex + 1
           /\ m[p].FileInfos[i].Path # m[p].FileInfos[m[p].CurrentIndex + 1].Path )
         => MovedAndRecorded(p, m[p].FileInfos[i].Path)

\* C2: once confirmation is given or skipped and nothing fails, a delete
\* batch does not come to rest before every target that exists has been
\* moved to the cache and recorded in the index, wherever the missing
\* targets stand in the input.
C2_EveryValidTargetMoved ==
  \A p \in Procs :
    ( /\ running[p]
      /\ AtRest(p)
      /\ m[p].Operation = "delete"
      /\ m[p].Confirmed
      /\ m[p].State # "error" )
    => \A i \in ValidTargets(p) : MovedAndRecorded(p, m[p].FileInfos[i].Path)

\* CheckFileInfo's needsConfirm for the object `path` held when the run began.
TargetNeedsConfirm(path) ==
  LET obj == disk0[1][path]
  IN  NeedsConfirm(path, obj.size, IsDir(obj), IF IsDir(obj) THEN obj.count ELSE 0)

\* C3: the confirming state is skipped only under no-confirm and when no
\* target requires confirmation; an item that is protected, large with
\* confirm-on-large, or matching a confirm pattern is never in the cache
\* without the user's 'y'.
C3_ConfirmationGate ==
  \A p \in Procs :
    (m[p].Operation = "delete" /\ ~answeredYes[p])
    => /\ m[p].Confirmed =>
            /\ m[p].NoConfirm
            /\ \A i \in ValidTargets(p) : ~TargetNeedsConfirm(m[p].FileInfos[i].Path)
       /\ \A k \in 1..Len(m[p].ProcessedItems) :
            LET item == m[p].ProcessedItems[k]
            IN  ~NeedsConfirm(item.OriginalPath, item.Size, item.IsDirectory, item.FileCount)

\* C4: while the workflow is in checking or confirming, and after 'n' or a
\* quit there, the original paths, the cache and the index are what they
\* were when the invocation started.
C4_NoEffectBeforeConfirmation ==
  m[1].State \in {"checking", "confirming"} => <<fs, cache, indexFile>> = disk0

\* C4's case: the user answered no, or quit, at the confirmation prompt of
\* a batch with something to move or restore.
C4_DeclinedAtPrompt ==
  /\ m[1].State = "confirming"
  /\ ~running[1]
  /\ (ValidTargets(1) # {} \/ m[1].RestoreItems # <<>>)

\* C5: between the steps of a running invocation, every entry of the
\* index has an object at its cache path.
C5_IndexEntriesAreCached ==
  (running[1] /\ cmd[1] = NoCmd)
  => \A i \in 1..Len(IndexItems) : IndexItems[i].CachePath \in DOMAIN cache

\* C6: a file moved to the cache by a delete and then restored, with no
\* step of either failing, is back at its original path with the content
\* and the permission bits it had, is no longer in the cache, and has no
\* entry in the index.
C6_RoundTrip ==
  \A k1 \in 1..Len(m[1].ProcessedItems), k2 \in 1..Len(m[2].ProcessedItems) :
    LET item == m[1].ProcessedItems[k1]
    IN  ( /\ faults = 0
          /\ m[1].Operation = "delete"
          /\ m[2].Operation = "restore"
          /\ m[2].ProcessedItems[k2] = item
          /\ ~item.IsDirectory )
        => /\ fs[item.OriginalPath] = disk0[1][item.OriginalPath]
           /\ item.CachePath \notin DOMAIN cache
           /\ ~InIndex(item)

\* The entry at place i of p's restore queue could be restored when the
\* run began: its object was in the cache and its original path was free.
Restorable(p, i) ==
  /\ m[p].RestoreItems[i].CachePath \in DOMAIN disk0[2]
  /\ disk0[1][m[p].RestoreItems[i].OriginalPath] = NoObj

\* C7: in a restore batch, the failure to restore one entry does not keep
\* an entry with another original path from being restored and removed
\* from the index, whichever of the two is first in the queue.
C7_RestoreFailureKeepsBatchGoing ==
  \A p \in Procs :
    ( /\ running[p]
      /\ AtRest(p)
      /\ m[p].Operation = "restore"
      /\ m[p].ErrorMsg = "Error restoring item" )
    => \A i \in 1..Len(m[p].RestoreItems) :
         ( /\ m[p].RestoreItems[i].OriginalPath
                # m[p].RestoreItems[m[p].CurrentIndex + 1].OriginalPath
           /\ Restorable(p, i) )
         => /\ fs[m[p].RestoreItems[i].OriginalPath] # NoObj
            /\ ~InIndex(m[p].RestoreItems[i])

\* Process p ends AddToIndex with a successful save in this step.
AddSaved(p) ==
  /\ cmd[p].name = "moveFileToCache"
  /\ cmd[p].pc = "addSave"
  /\ inbox'[p].type = "FileMoveMsg"
  /\ ~inbox'[p].Err

C9_ReportedMeansIndexed ==
  \A p \in Procs : \A k \in 1..Len(m[p].ProcessedItems) :
    /\ (m[p].Operation = "delete" /\ m[p].State = "moving")
         => InIndex(m[p].ProcessedItems[k])
    /\ m[p].Operation = "restore"
         => /\ indexFile.state # "corrupt"
            /\ \A i \in 1..Len(IndexItems) : IndexItems[i].ID # m[p].ProcessedItems[k].ID

\* The step of p is an index save that failed.
SaveFailed(p) ==
  /\ cmd[p].name \in {"moveFileToCache", "restoreFromCache", "cleanupOldFiles", "PurgeOldFiles"}
  /\ cmd[p].pc \in {"addSave", "rmSave", "save"}
  /\ cmd'[p] = NoCmd
  /\ faults' > faults

\* C10: when a save over a readable index file fails, the index file still
\* holds what it held before the save.
C10_FailedSaveKeepsIndex ==
  [][\A p \in Procs :
       (SaveFailed(p) /\ indexFile.state = "ok") => indexFile' = indexFile]_vars

\* C11: a running workflow with no command in flight and no message
\* waiting is at the confirmation prompt, done, or in the error state: it
\* does not sit in checking, moving, restoring, cleanup, clearing or
\* purging with nothing pending.
C11_NeverIdleMidway ==
  \A p \in Procs :
    (running[p] /\ AtRest(p)) => m[p].State \in {"confirming", "done", "error"}

\* The entries a delete run of process 1 has had in the index: the ones it
\* found there and the ones it recorded.
KnownEntries ==
  { disk0[3].items[i] : i \in 1..Len(disk0[3].items) }
    \cup { m[1].ProcessedItems[k] : k \in 1..Len(m[1].ProcessedItems) }

\* C12: when a delete batch is done, cleanup has run: the index holds no
\* entry older than the retention window, the cached content of every
\* entry dropped from the index is gone, and the entries inside the window
\* are still in the index with their cached content.
C12_CleanupBeforeDone ==
  (m[1].Operation = "delete" /\ m[1].State = "done")
  => /\ \A i \in 1..Len(IndexItems) : ~Expired(IndexItems[i], Cutoff(now, Config.Days))
     /\ \A e \in KnownEntries :
          /\ ~InIndex(e) => e.CachePath \notin DOMAIN cache
          /\ ~Expired(e, Cutoff(now, Config.Days))
               => (InIndex(e) /\ e.CachePath \in DOMAIN cache)

\* The entries of the index a purge run found, and the day count it was given.
EntriesBefore == disk0[3].items
PurgeDays == Atoi(m[1].Filenames[1]).n

\* The delete time of e is older than now minus days * 24h.
OlderThan(e, days) == e.DeleteDate < now - days * HoursPerDay

\* C13: when purge(days) is done and no step of it failed, the index holds
\* the entries it held before less the ones older than now minus
\* days * 24h, in the same order; the cached content of exactly those is
\* gone and the rest is untouched; the count reported is the number of
\* entries removed.
C13_PurgeRemovesExactlyTheOld ==
  (m[1].Operation = "purge" /\ m[1].State = "done" /\ faults = 0)
  => /\ IndexItems = SelectSeq(EntriesBefore, LAMBDA e : ~OlderThan(e, PurgeDays))
     /\ \A i \in 1..Len(EntriesBefore) :
          LET e == EntriesBefore[i]
          IN  IF OlderThan(e, PurgeDays)
                THEN e.CachePath \notin DOMAIN cache
                ELSE /\ e.CachePath \in DOMAIN cache
                     /\ cache[e.CachePath] = disk0[2][e.CachePath]
     /\ m[1].ProcessedFiles = Len(EntriesBefore) - Len(IndexItems)

\* The age of entry e at the last clock reading, less the retention
\* window: positive when e is past the window, 0 exactly at the cutoff.
PastWindow(e) == (now - e.DeleteDate) - Config.Days * HoursPerDay

\* C14: an entry one tick past the retention window is expired, one
\* exactly at the cutoff or one tick inside is not: the cleanup of a
\* finished delete drops from the index the entries past the window and
\* keeps the others, and stats counts as expired the entries past it.
C14_ExpiryBoundary ==
  /\ (m[1].Operation = "delete" /\ m[1].State = "done")
       => \A i \in 1..Len(EntriesBefore) :
            InIndex(EntriesBefore[i]) <=> PastWindow(EntriesBefore[i]) < 1
  /\ out[1].kind = "stats"
       => out[1].ExpiredCount
            = Cardinality({ i \in 1..Len(IndexItems) : PastWindow(IndexItems[i]) >= 1 })

\* C14's case: a delete is done whose cleanup met an entry exactly at the
\* cutoff and kept it.
C14_KeptAtCutoff ==
  /\ m[1].Operation = "delete"
  /\ m[1].State = "done"
  /\ \E i \in 1..Len(EntriesBefore) :
       PastWindow(EntriesBefore[i]) = 0 /\ InIndex(EntriesBefore[i])

\* What CheckRestoreItems would find for `patterns` in the index as it is.
WouldRestore(patterns) == MatchingItems(patterns, LoadIndex(indexFile, FALSE).items)

\* C15: when a clear-all is done, the index is empty and the cache holds
\* nothing, whatever the age of the entries; a restore would find no
\* match for any patterns.
C15_ClearEmptiesEverything ==
  (m[1].Operation = "clear" /\ m[1].State = "done")
  => /\ indexFile = OkIndex(<<>>)
     /\ DOMAIN cache = {}
     /\ \A patterns \in SeqsOf(Patterns, 1, MaxPatterns) : WouldRestore(patterns) = <<>>

\* C15's case: a clear-all is done that found an entry still inside the
\* retention window, with its content in the cache.
C15_ClearedRecentEntry ==
  /\ m[1].Operation = "clear"
  /\ m[1].State = "done"
  /\ \E i \in 1..Len(EntriesBefore) :
       /\ PastWindow(EntriesBefore[i]) < 1
       /\ EntriesBefore[i].CachePath \in DOMAIN disk0[2]

\* The move p has in flight is past its first step and both of its ends are
\* on one filesystem.
MoveWithinFilesystem(p) ==
  /\ cmd[p].name \in {"moveFileToCache", "restoreFromCache"}
  /\ cmd[p].pc # "start"
  /\ cmd[p].sameFs

\* The object the move of p is taking its content from or to, at either end.
AtOriginalPath(p) == fs[cmd[p].item.OriginalPath] # NoObj
AtCachePath(p) == cmd[p].item.CachePath \in DOMAIN cache

\* C16: a move of a file or of a directory within one filesystem is never
\* in a state where content exists both at the source and at the
\* destination.
C16_MoveIsAtomic ==
  \A p \in Procs :
    MoveWithinFilesystem(p) => ~(AtOriginalPath(p) /\ AtCachePath(p))

\* What the cache c holds at cp.
CacheObj(c, cp) == IF cp \in DOMAIN c THEN c[cp] ELSE NoObj

\* copy is all of obj: its kind, its content and everything under it.
CompleteCopyOf(obj, copy) ==
  /\ obj # NoObj
  /\ copy.kind = obj.kind
  /\ copy.data = obj.data
  /\ copy.size = obj.size
  /\ copy.count = obj.count

\* p is inside the MoveFile / MoveDirectory call of the command `name`.
InMove(p, name) == cmd[p].name = name /\ cmd[p].pc \in {"start", "remove"}

\* The path a delete of p moves away.
DeleteSource(p) ==
  IF cmd[p].pc = "start" THEN cmd[p].filename ELSE cmd[p].item.OriginalPath

\* C17: a move touches its source only once the destination holds a whole
\* copy of it; a step of the copy that fails ends the move with an error,
\* the source as it was. Both for the move into the cache and for the move
\* back.
C17_SourceRemovedAfterCopy ==
  [][\A p \in Procs :
       /\ InMove(p, "moveFileToCache") =>
            LET src == DeleteSource(p)
            IN  /\ fs'[src] # fs[src] =>
                      \E cp \in DOMAIN cache' :
                        cp[2] = Base(src) /\ CompleteCopyOf(fs[src], cache'[cp])
                /\ (cmd[p].pc = "start" /\ inbox'[p] = FileMoveErr) => fs'[src] = fs[src]
                /\ (\E cp \in DOMAIN cache' :
                       /\ cache'[cp] # CacheObj(cache, cp)
                       /\ ~CompleteCopyOf(fs[src], cache'[cp]))
                   => inbox'[p] = FileMoveErr
       /\ InMove(p, "restoreFromCache") =>
            LET cp == cmd[p].item.CachePath
                dst == cmd[p].item.OriginalPath
            IN  /\ CacheObj(cache', cp) # CacheObj(cache, cp) =>
                      CompleteCopyOf(CacheObj(cache, cp), fs'[dst])
                /\ (cmd[p].pc = "start" /\ inbox'[p] = RestoreErr) => cache' = cache
                /\ (fs'[dst] # fs[dst] /\ ~CompleteCopyOf(CacheObj(cache, cp), fs'[dst]))
                   => inbox'[p] = RestoreErr
  ]_vars

\* C17's case: a delete has ended in an error with a broken-off copy in the
\* cache and the target whole at its path.
C17_CopyFailedSourceIntact ==
  /\ m[1].Operation = "delete"
  /\ inbox[1] = FileMoveErr
  /\ \E cp \in DOMAIN cache :
       /\ cache[cp].data = "partial"
       /\ fs[cp[2]] = InitialObj(cp[2])

\* C18: when the move of a delete target into the cache returns an error,
\* the index file is as it was, so without an entry for the target, and
\* the target is at its original path as it was.
C18_FailedMoveDeletesNothing ==
  [][\A p \in Procs :
       (/\ InMove(p, "moveFileToCache")
        /\ fs[DeleteSource(p)] # NoObj
        /\ inbox'[p] = FileMoveErr)
       => /\ indexFile' = indexFile
          /\ fs'[DeleteSource(p)] = fs[DeleteSource(p)]
  ]_vars

\* What loading the index file as it is returns, by either LoadIndex.
Loaded(readFails) ==
  { LoadIndex(indexFile, readFails), FilesystemLoadIndex(indexFile, readFails) }

\* C19: loading the index while the file is absent gives no error and an
\* empty index with the current version stamp; loading a file that is
\* there but cannot be read or decoded gives an error.
C19_LoadAbsentOrUnreadable ==
  /\ indexFile.state = "absent" =>
       \A r \in Loaded(FALSE) :
         ~r.err /\ r.items = <<>> /\ r.version = CurrentVersion
  /\ indexFile.state = "corrupt" => \A r \in Loaded(FALSE) : r.err
  /\ indexFile.state # "absent" => \A r \in Loaded(TRUE) : r.err

\* The entries the index file holds that this run put there, in order.
RecordedThisRun ==
  SelectSeq(IndexItems, LAMBDA it : \A i \in 1..Len(EntriesBefore) : EntriesBefore[i] # it)

\* C20: the entries one run records in the index have pairwise distinct
\* ids and cache paths, also when two moves read the same clock value, so
\* that removing by id takes out one entry only.
C20_DistinctIds ==
  \A i, j \in 1..Len(RecordedThisRun) :
    i # j => /\ RecordedThisRun[i].ID # RecordedThisRun[j].ID
             /\ RecordedThisRun[i].CachePath # RecordedThisRun[j].CachePath
             /\ Len(RemoveID(RecordedThisRun, RecordedThisRun[i].ID))
                  = Len(RecordedThisRun) - 1

\* pat occurs in path at some offset, letter case aside; "*" and "?" stand
\* for themselves.
ContainsFolded(path, pat) ==
  \E off \in 0..(Len(path) - Len(pat)) :
    \A c \in 1..Len(pat) : ToLowerChar(path[off + c]) = ToLowerChar(pat[c])

\* <<i, j>>: pattern i of the command line occurs in entry j of the index
\* the run started with.
RestoreMatches ==
  { ij \in (1..Len(m[1].Filenames)) \X (1..Len(EntriesBefore)) :
      ContainsFolded(EntriesBefore[ij[2]].OriginalPath, m[1].Filenames[ij[1]]) }

\* The number of matches before ij, by pattern and then by index position.
MatchesBefore(ij) ==
  Cardinality({ x \in RestoreMatches :
                  x[1] < ij[1] \/ (x[1] = ij[1] /\ x[2] < ij[2]) })

\* The restore has its queue: checking returned the matching items.
RestoreQueued ==
  /\ m[1].Operation = "restore"
  /\ m[1].State \in {"confirming", "restoring", "done"}

RestoreCollides(p) ==
  /\ running[p]
  /\ cmd[p].name = "restoreFromCache"
  /\ cmd[p].pc = "start"
  /\ fs[cmd[p].item.OriginalPath] # NoObj

\* C22: a restore whose destination exists ends in an error, and leaves
\* the object at the destination, the cached content and the index as
\* they were.
C22_CollisionChangesNothing ==
  [][\A p \in Procs :
       RestoreCollides(p)
       => /\ fs' = fs
          /\ cache' = cache
          /\ indexFile' = indexFile
          /\ (running'[p] /\ cmd'[p] # cmd[p]) => inbox'[p] = RestoreErr
  ]_vars

\* C22's case: a restore was refused for an entry that is in the index,
\* with its content in the cache and an object at its original path.
C22_RefusedAtCollision ==
  /\ m[1].Operation = "restore"
  /\ m[1].State = "error"
  /\ m[1].CurrentIndex < Len(m[1].RestoreItems)
  /\ LET item == m[1].RestoreItems[m[1].CurrentIndex + 1]
     IN  /\ fs[item.OriginalPath] # NoObj
         /\ item.CachePath \in DOMAIN cache
         /\ InIndex(item)
         /\ faults = 0

\* The run has nothing to work on: a delete none of whose targets was on
\* disk, or a restore none of whose patterns occurs in an index entry.
NothingFound ==
  \/ /\ m[1].Operation = "delete"
     /\ \A i \in 1..Len(m[1].Filenames) : disk0[1][m[1].Filenames[i]] = NoObj
  \/ /\ m[1].Operation = "restore"
     /\ RestoreMatches = {}

\* C23: a delete without an existing target and a restore without a
\* matching entry leave checking for the error state only, never for
\* confirming or a later state; nothing is moved and the index file stays
\* as it was.
C23_NothingFoundIsError ==
  NothingFound
  => /\ m[1].State \in {"checking", "error"}
     /\ ~answeredYes[1]
     /\ fs = disk0[1]
     /\ cache = disk0[2]
     /\ indexFile = disk0[3]

\* C23's case: a restore over an index with entries, none of which any
\* pattern occurs in, is in the error state.
C23_NoMatchEnded ==
  /\ m[1].Operation = "restore"
  /\ RestoreMatches = {}
  /\ EntriesBefore # <<>>
  /\ faults = 0
  /\ m[1].State = "error"

\* The user quit the run while it was moving or restoring.
QuitMidBatch ==
  /\ ~running[1]
  /\ m[1].State \in {"moving", "restoring"}

\* The items Update has received the result of.
Processed == m[1].ProcessedItems
IsProcessed(item) == \E k \in 1..Len(Processed) : Processed[k] = item

\* The paths of the delete targets, and the items of the restore queue,
\* that come after the one in flight and nowhere before.
NotStartedPaths ==
  { m[1].FileInfos[i].Path : i \in (m[1].CurrentIndex + 2)..Len(m[1].FileInfos) }
    \ { m[1].FileInfos[i].Path : i \in 1..(m[1].CurrentIndex + 1) }
NotStartedItems ==
  { m[1].RestoreItems[i] : i \in (m[1].CurrentIndex + 2)..Len(m[1].RestoreItems) }
    \ { m[1].RestoreItems[i] : i \in 1..(m[1].CurrentIndex + 1) }

\* The entries a complete move of the delete target in flight can have
\* made.
InFlightEntries ==
  IF m[1].CurrentIndex + 1 \in 1..Len(m[1].FileInfos)
    THEN LET path == m[1].FileInfos[m[1].CurrentIndex + 1].Path
         IN  IF disk0[1][path] = NoObj THEN {}
             ELSE { MakeItem(path, disk0[1][path], t) : t \in StartClock..now }
    ELSE {}

\* The index after the moves of Processed, and after that of the target in
\* flight when its move was complete as well.
IndexAfterMoves ==
  { EntriesBefore \o Processed }
    \cup { EntriesBefore \o Processed \o <<e>> : e \in InFlightEntries }

\* The index after the restores of Processed, and after that of the item in
\* flight when its restore was complete as well.
IndexAfterRestores ==
  LET left == SelectSeq(EntriesBefore, LAMBDA e : ~IsProcessed(e))
  IN  { left } \cup { RemoveID(left, m[1].RestoreItems[i].ID) :
                        i \in {m[1].CurrentIndex + 1} \cap (1..Len(m[1].RestoreItems)) }

\* C24: a quit during moving or restoring changes nothing on disk and
\* nothing changes after it: no later target is processed, no processed
\* one is put back. Without an I/O failure in the run, the processed
\* items are moved (or restored), the index holds the entries the run
\* found plus exactly those of the complete moves (less exactly those of
\* the complete restores), and the targets not started are untouched.
C24_QuitStopsWithoutRollback ==
  /\ [][
        /\ ((running[1] /\ ~running'[1] /\ m[1].State \in {"moving", "restoring"})
             => (fs' = fs /\ cache' = cache /\ indexFile' = indexFile /\ m' = m))
        /\ (QuitMidBatch
             => (fs' = fs /\ cache' = cache /\ indexFile' = indexFile /\ m' = m))
     ]_vars
  /\ []((QuitMidBatch /\ faults = 0 /\ m[1].Operation = "delete")
        => /\ \A k \in 1..Len(Processed) :
                /\ fs[Processed[k].OriginalPath] = NoObj
                /\ Processed[k].CachePath \in DOMAIN cache
           /\ IndexItems \in IndexAfterMoves
           /\ \A path \in NotStartedPaths : fs[path] = disk0[1][path])
  /\ []((QuitMidBatch /\ faults = 0 /\ m[1].Operation = "restore")
        => /\ \A k \in 1..Len(Processed) :
                /\ fs[Processed[k].OriginalPath] # NoObj
                /\ Processed[k].CachePath \notin DOMAIN cache
           /\ IndexItems \in IndexAfterRestores
           /\ \A item \in NotStartedItems :
                /\ InIndex(item)
                /\ item.CachePath \in DOMAIN cache
                /\ fs[item.OriginalPath] = disk0[1][item.OriginalPath])

\* C24's case: the user quit a delete of several targets after the first
\* was processed and before the last was started.
C24_QuitAfterFirst ==
  /\ QuitMidBatch
  /\ m[1].Operation = "delete"
  /\ Len(Processed) >= 1
  /\ NotStartedPaths # {}
  /\ \E path \in NotStartedPaths : fs[path] # NoObj

\* The workflow of p is in one of its two final states.
Terminal(p) == m[p].State \in {"done", "error"}

\* C25: once the state is done or error, no command is in flight and no
\* message waits; the only step left to the session is the one that ends
\* it, which Enter takes: the state, the disk and the index stay as they
\* are.
C25_TerminalStates ==
  /\ [](\A p \in Procs :
          Terminal(p) => /\ cmd[p] = NoCmd
                         /\ inbox[p] = NoMsg
                         /\ running[p] => ENABLED (KeyEnter(p) /\ ~running'[p]))
  /\ [][\A p \in Procs :
          Terminal(p) => /\ m'[p] = m[p]
                         /\ cmd'[p] = NoCmd
                         /\ inbox'[p] = NoMsg
                         /\ fs' = fs
                         /\ cache' = cache
                         /\ indexFile' = indexFile
                         /\ ~running'[p]
       ]_vars

\* C25's case: a delete that reached done was ended by the user.
C25_EndedAfterDone ==
  /\ m[1].Operation = "delete"
  /\ m[1].State = "done"
  /\ Len(Processed) >= 1
  /\ ~running[1]

\* seq is targets with some elements left out: the same relative order.
InOrderOf(seq, targets) ==
  \E f \in [1..Len(seq) -> 1..Len(targets)] :
    /\ \A k \in 1..Len(seq) : targets[f[k]] = seq[k]
    /\ \A k, l \in 1..Len(seq) : k < l => f[k] < f[l]

\* The original paths of a sequence of items.
PathsOf(items) == [k \in 1..Len(items) |-> items[k].OriginalPath]

\* This step starts a move or a restore command of p.
StartsItem(p) ==
  /\ cmd'[p].name \in {"moveFileToCache", "restoreFromCache"}
  /\ cmd'[p].pc = "start"
  /\ cmd'[p] # cmd[p]

\* C26: a move or restore command starts only when none is in flight, and
\* after the first only in the Update that receives the result of the one
\* before, for a later target; the processed items, and the entries the
\* run has put in the index, are in the order of the targets of the
\* command line (of the restore queue).
C26_OneAtATimeInOrder ==
  /\ [][\A p \in Procs :
          StartsItem(p)
          => /\ cmd[p] = NoCmd
             /\ m[p].State \in {"moving", "restoring"}
                => /\ inbox[p].type \in {"FileMoveMsg", "RestoreMsg"}
                   /\ ~inbox[p].Err
                   /\ m'[p].CurrentIndex > m[p].CurrentIndex
       ]_vars
  /\ [](m[1].Operation = "delete"
         => /\ InOrderOf(PathsOf(Processed), m[1].Filenames)
            /\ InOrderOf(PathsOf(RecordedThisRun), m[1].Filenames))
  /\ [](m[1].Operation = "restore"
         => InOrderOf(Processed, m[1].RestoreItems))

\* C26's case: a delete of several targets has processed two of them.
C26_TwoProcessed ==
  /\ m[1].Operation = "delete"
  /\ Len(Processed) >= 2
  /\ Len(RecordedThisRun) >= 2

\* CheckFileInfo has returned the FileInfo of an existing target.
InfoOfExisting == out[1].kind = "FileInfo" /\ out[1].Exists

\* path is the entry `protected` or lies under it: the components of
\* `protected` are the first components of path.
UnderOrEqual(path, protected) ==
  \/ path = protected
  \/ /\ Len(path) > Len(protected)
     /\ SubSeq(path, 1, Len(protected)) = protected
     /\ (path[Len(protected) + 1] = "/" \/ protected[Len(protected)] = "/")

\* C27: a path is classified protected exactly when it is equal to, or
\* nested under, an entry of the protected-path list, by whole path
\* components: /h2 is not protected by /h.
C27_ProtectedByComponents ==
  InfoOfExisting
  => (out[1].IsProtected
        <=> \E protected \in cmd[1].cfg.ProtectedPaths : UnderOrEqual(out[1].Path, protected))

\* C28: for an existing target, large holds exactly when its size exceeds
\* the size limit or it is a directory with more descendants than the
\* count limit; needs_confirm holds exactly when it is protected, or
\* large under confirm_on_large, or its base name matches one of the
\* configured globs.
C28_LargeAndNeedsConfirm ==
  InfoOfExisting
  => LET obj == fs[out[1].Path]
         cfg == cmd[1].cfg
     IN  /\ out[1].IsLarge
              <=> \/ obj.size >= cfg.LargeSizeLimit + 1
                  \/ (obj.kind = "dir" /\ obj.count >= cfg.LargeCountLimit + 1)
         /\ out[1].NeedsConfirm
              <=> \/ out[1].IsProtected
                  \/ (cfg.ConfirmOnLarge /\ out[1].IsLarge)
                  \/ \E pattern \in cfg.RequireConfirm : Match(pattern, Base(out[1].Path))

\* C28's case: a directory within the size limit and over the count limit
\* was classified large, and needs confirmation for nothing but that.
C28_LargeByCount ==
  /\ InfoOfExisting
  /\ out[1].IsDirectory
  /\ out[1].Size < Config.LargeSizeLimit
  /\ out[1].IsLarge
  /\ ~out[1].IsProtected
  /\ ~Match(<<"*", "k">>, Base(out[1].Path))
  /\ out[1].NeedsConfirm

\* C29: deleting or restoring a symbolic link moves the link: what the
\* cache holds for a link is a link, what a restore puts back is a link,
\* and the referents stay as they were.
C29_LinkMovesAsLink ==
  /\ \A cp \in DOMAIN cache : cp[2] \in LinkPaths => cache[cp].kind = "link"
  /\ \A path \in LinkPaths : fs[path] = NoObj \/ fs[path].kind = "link"
  /\ \A path \in Paths : fs[path] = disk0[1][path]

\* The list query has printed its lines.
Listed == out[1].kind = "list"

\* C30: the lines of the list query are the index entries, each as often
\* as the index holds it, and of two consecutive lines the first was not
\* deleted earlier than the second.
C30_ListNewestFirst ==
  Listed
  => LET lines == out[1].Lines
     IN  /\ Len(lines) = Len(IndexItems)
         /\ \E f \in [1..Len(lines) -> 1..Len(lines)] :
              /\ \A i, j \in 1..Len(lines) : i # j => f[i] # f[j]
              /\ \A i \in 1..Len(lines) : lines[i] = IndexItems[f[i]]
         /\ \A i \in 1..(Len(lines) - 1) :
              lines[i].DeleteDate >= lines[i + 1].DeleteDate

\* C30's case: a list of three entries the index holds oldest first, two
\* of them deleted at the same time.
C30_ListedReversed ==
  /\ Listed
  /\ Len(IndexItems) = 3
  /\ IndexItems[1].DeleteDate < IndexItems[2].DeleteDate
  /\ IndexItems[2].DeleteDate = IndexItems[3].DeleteDate
  /\ IndexItems[2] # IndexItems[3]

\* Hours the entry has left at time t: until its delete time plus the
\* retention period.
HoursRemaining(e, t) == e.DeleteDate + Config.Days * HoursPerDay - t

\* The whole days in h hours, the fraction dropped.
WholeDays(h) == IF h >= 0 THEN h \div HoursPerDay ELSE -((-h) \div HoursPerDay)

\* The days left the list reports for line i, and the info query for its
\* i-th item: the numbers printed, none when no number is printed.
ListReports(p, i) == <<out[p].DaysLeft[i]>>
InfoReports(p, i) == out[p].Expiry[i].DaysLeft

\* C31: the days left a query reports for an entry is the whole number of
\* days in the hours the entry has left when the query reads the clock (0
\* with less than 24 hours left), in the list and in the info query alike,
\* so that both report the same value for the same entry at the same time.
C31_DaysLeftTruncated ==
  /\ [][\A p \in Procs :
         /\ (out[p] = NoOut /\ out'[p].kind = "list")
            => \A i \in 1..Len(out'[p].Lines) :
                 out'[p].DaysLeft[i] = WholeDays(HoursRemaining(out'[p].Lines[i], now'))
         /\ (out[p] = NoOut /\ out'[p].kind = "info")
            => \A i \in 1..Len(out'[p].Items) :
                 out'[p].Expiry[i].DaysLeft
                   = <<WholeDays(HoursRemaining(out'[p].Items[i], now'))>>]_vars
  /\ [](\A p, q \in Procs :
         (out[p].kind = "list" /\ out[q].kind = "info" /\ now = StartClock)
         => \A i \in 1..Len(out[p].Lines), j \in 1..Len(out[q].Items) :
              out[p].Lines[i] = out[q].Items[j] => ListReports(p, i) = InfoReports(q, j))

\* The query that printed o, as far as its output tells: an error message
\* is the same for every query.
QueryOf(o) ==
  IF o.kind = "list" \/ (o.kind = "empty" /\ o.Text = "No cached files found.")
    THEN [name |-> "ShowList"]
  ELSE IF o.kind = "stats" \/ o.kind = "empty" THEN [name |-> "ShowStats"]
  ELSE IF o.kind \in {"info", "notFound"} THEN [name |-> "ShowInfo", pattern |-> o.Pattern]
  ELSE [name |-> "unknown"]

\* Both queries have run, every clock reading gave the same time and no
\* read failed.
BothAnswered ==
  /\ out[1] # NoOut
  /\ out[2] # NoOut
  /\ now = StartClock
  /\ faults = 0

\* C32: list, info and stats never change the index file or the cache
\* directory, and the same query run twice with nothing changed in between,
\* the clock included, prints the same output twice.
C32_QueriesReadOnly ==
  /\ [][indexFile' = indexFile /\ cache' = cache /\ fs' = fs]_vars
  /\ [](BothAnswered
        => /\ (out[1].kind = "error") <=> (out[2].kind = "error")
           /\ QueryOf(out[1]) = QueryOf(out[2]) => out[1] = out[2])

\* C32's case: the list printed twice from an index of two entries that
\* the file holds oldest first.
C32_ListedTwice ==
  /\ BothAnswered
  /\ out[1].kind = "list"
  /\ out[2].kind = "list"
  /\ Len(IndexItems) = 2
  /\ IndexItems[1].DeleteDate < IndexItems[2].DeleteDate

\* The command line of the call holds the word w.
ArgsHold(w) == \E i \in 1..Len(cmd[1].args) : cmd[1].args[i] = w

\* ParseArgs has returned a delete or a restore.
ParsedDeleteOrRestore ==
  /\ out[1].kind = "ParsedArgs"
  /\ out[1].Exit = "no"
  /\ out[1].Operation \in {"delete", "restore"}

\* C33: when --noconfirm is anywhere on the command line of a delete or a
\* restore, the parsed result has NoConfirm set and --noconfirm is none of
\* its targets or patterns.
C33_NoConfirmAnywhere ==
  (ParsedDeleteOrRestore /\ ArgsHold("--noconfirm"))
  => /\ out[1].NoConfirm
     /\ \A i \in 1..Len(out[1].Filenames) : out[1].Filenames[i] # "--noconfirm"

\* The states a workflow may be left from.
NonTerminalStates == {"checking", "confirming", "moving", "restoring", "cleanup", "clearing", "purging"}

\* The steps of the workflow state of each operation, error aside.
WorkflowSteps(operation) ==
  CASE operation = "delete" ->
         { <<"checking", "confirming">>, <<"checking", "moving">>, <<"confirming", "moving">>,
           <<"moving", "cleanup">>, <<"cleanup", "done">> }
    [] operation = "restore" ->
         { <<"checking", "confirming">>, <<"checking", "restoring">>,
           <<"confirming", "restoring">>, <<"restoring", "done">> }
    [] operation = "clear" -> { <<"clearing", "done">> }
    [] operation = "purge" -> { <<"purging", "done">> }
    [] OTHER -> {}

\* The state each operation starts in.
FirstState(operation) ==
  CASE operation = "clear" -> "clearing"
    [] operation = "purge" -> "purging"
    [] OTHER -> "checking"

\* The invocations with a workflow.
Workflows == { p \in Procs : m[p].Operation \in {"delete", "restore", "clear", "purge"} }

MatchedAtCheck ==
  { j \in 1..Len(EntriesBefore) :
      \E i \in 1..Len(m[1].Filenames) :
        ContainsFolded(EntriesBefore[j].OriginalPath, m[1].Filenames[i]) }

\* At check time every matched entry has its cached content and a free
\* original path.
AllRestorable ==
  \A j \in MatchedAtCheck :
    /\ EntriesBefore[j].CachePath \in DOMAIN disk0[2]
    /\ disk0[1][EntriesBefore[j].OriginalPath] = NoObj

\* A confirmed restore with something to restore has ended, no call of the
\* operating system having failed.
RestoreBatchEnded ==
  /\ m[1].Operation = "restore"
  /\ m[1].Confirmed
  /\ m[1].State \in {"done", "error"}
  /\ AtRest(1)
  /\ faults = 0
  /\ MatchedAtCheck # {}

\* C35: a confirmed restore all of whose matched entries were restorable
\* at check time ends in done, each matched entry back at its original
\* path and out of the index, also when several patterns match one entry.
C35_RestorableBatchDone ==
  (RestoreBatchEnded /\ AllRestorable)
  => /\ m[1].State = "done"
     /\ \A j \in MatchedAtCheck :
          /\ fs[EntriesBefore[j].OriginalPath] = disk0[2][EntriesBefore[j].CachePath]
          /\ ~InIndex(EntriesBefore[j])

\* The delete and restore invocations.
Batches == { p \in Procs : m[p].Operation \in {"delete", "restore"} }

\* C36: a delete or restore in moving, restoring or cleanup has Confirmed
\* set, and while Confirmed is not set no step of the invocation changes a
\* file, the cache or the index.
C36_ConfirmedBeforeEffect ==
  /\ [](\A p \in Batches :
          m[p].State \in {"moving", "restoring", "cleanup"} => m[p].Confirmed)
  /\ [][\A p \in Batches :
          ~m[p].Confirmed => (fs' = fs /\ cache' = cache /\ indexFile' = indexFile)]_vars

\* C36's case: a delete run with --noconfirm has moved a file into the
\* cache and recorded it.
C36_MovedUnasked ==
  /\ m[1].Operation = "delete"
  /\ m[1].NoConfirm
  /\ m[1].State = "cleanup"
  /\ m[1].Confirmed
  /\ ~answeredYes[1]
  /\ cache # disk0[2]
  /\ indexFile # disk0[3]

\* The call of process p has returned without error.
Removed(p) == out[p] = [kind |-> "RemoveFromIndex", err |-> FALSE]

\* The positions of `items` whose entry does not carry the id.
KeptPositions(items, id) == { j \in 1..Len(items) : items[j].ID # id }

\* `rest` is `items` without the entries that carry the id: what is left
\* is unchanged and in its order.
IsWithoutId(rest, items, id) ==
  /\ Len(rest) = Cardinality(KeptPositions(items, id))
  /\ \A j \in KeptPositions(items, id) :
       rest[Cardinality({ j2 \in KeptPositions(items, id) : j2 <= j })] = items[j]

\* C37: remove(id) leaves the index with the entries that do not carry the
\* id, unchanged and in their order, and without any entry that carries
\* it; an id no entry carries leaves the item list as it was; removing the
\* same id a second time leaves the index as the first removal left it.
C37_RemoveFiltersById ==
  /\ []((Removed(1) /\ out[2] = NoOut /\ cmd[2].pc = "load")
        => /\ indexFile.state = "ok"
           /\ IsWithoutId(IndexItems, EntriesBefore, cmd[1].id)
           /\ \A i \in 1..Len(IndexItems) : IndexItems[i].ID # cmd[1].id
           /\ (\A j \in 1..Len(EntriesBefore) : EntriesBefore[j].ID # cmd[1].id)
              => IndexItems = EntriesBefore)
  /\ [][(Removed(1) /\ Removed(2)' /\ cmd[1].id = cmd[2].id)
         => indexFile' = indexFile]_vars

\* C37's case: the id of two of three entries has been removed, and then
\* removed again.
C37_RemovedTwoOfThree ==
  /\ Removed(1)
  /\ Removed(2)
  /\ cmd[1].id = cmd[2].id
  /\ Len(EntriesBefore) = 3
  /\ EntriesBefore[1].ID = cmd[1].id
  /\ EntriesBefore[2].ID # cmd[1].id
  /\ EntriesBefore[3].ID = cmd[1].id
  /\ EntriesBefore[1] # EntriesBefore[3]

\* SafeDelete has returned.
SafeDeleteOver == out[1].kind = "SafeDelete"

\* C38: after SafeDelete every target it moved into the cache has its
\* entry in the index, under the cache path the file is at.
C38_SafeDeleteRecords ==
  SafeDeleteOver
  => \A k \in 1..Len(out[1].Deleted) :
       \E i \in 1..Len(IndexItems) :
         /\ IndexItems[i].CachePath = out[1].Deleted[k].CachePath
         /\ IndexItems[i].OriginalPath = out[1].Deleted[k].OriginalPath

\* C39: a step the keys y or n take starts in confirming and a step Enter
\* takes starts in done or error: pressed in any other state they change
\* nothing; during moving and restoring no step answers the prompt again
\* or takes the batch back to an earlier item.
C39_KeysOnlyInTheirStates ==
  [][\A p \in Procs :
       /\ (KeyYes(p) \/ KeyNo(p)) => m[p].State = "confirming"
       /\ KeyEnter(p) => m[p].State \in {"done", "error"}
       /\ m[p].State \in {"moving", "restoring"}
          => /\ answeredYes'[p] = answeredYes[p]
             /\ m'[p].CurrentIndex >= m[p].CurrentIndex
             /\ Len(m'[p].ProcessedItems) >= Len(m[p].ProcessedItems)]_vars

\* C39's case: a batch past its first item, its next move in flight, where
\* y, n and Enter can be pressed.
C39_KeysDuringBatch ==
  /\ running[1]
  /\ m[1].State = "moving"
  /\ m[1].CurrentIndex > 0
  /\ Len(m[1].ProcessedItems) > 0
  /\ cmd[1] # NoCmd
  /\ ENABLED KeyYes(1)
  /\ ENABLED KeyNo(1)
  /\ ENABLED KeyEnter(1)

====
